---- MODULE Spec2Model ----
(***************************************************************************)
(* Price / Volume / Mix bridge of sales_dashboard_with_validation.py.      *)
(*                                                                         *)
(* The data frame is a bag of rows (groupby/sum does not look at the row   *)
(* order).  Amounts are rationals <<numerator, denominator>> in lowest     *)
(* terms; <<1, 0>> stands for the non-finite results (inf, nan) that a     *)
(* division by zero produces.  calculate_bridge_mix_steps is modelled as   *)
(* the loop it is: one action per call, per iteration and per return.      *)
(***************************************************************************)
EXTENDS Integers, Sequences, FiniteSets, Bags, TLC

VARIABLES data, df, caller, years, group_col, pc, ys, i, all_steps, loc, ret, view,
          filters, ws, sections, bridge_no, fig, stage,
          kpc, kin, klog, kout

(* the dashboard's report: sidebar widgets, PQ_Bridge sheet, waterfall *)
report_vars == <<filters, ws, sections, bridge_no, fig, stage>>

(* the Korean GPCM tool: position, inputs, calls made, result *)
kr_vars == <<kpc, kin, klog, kout>>

vars == <<data, df, caller, years, group_col, pc, ys, i, all_steps, loc, ret, view,
          filters, ws, sections, bridge_no, fig, stage, kpc, kin, klog, kout>>

(***************************************************************************)
(* Bounds of the model.                                                    *)
(***************************************************************************)
MaxRows == 2

MaxPeriods == 3

YearSet == {2021, 2022, 2023}

(* <<Category, Product_Group, Revenue, Quantity>> of the rows a sheet may hold *)
SheetRows ==
    { <<"Bumper", "GH", 100, 10>>, <<"Bumper", "GH", 110, 10>>, <<"Bumper", "GH", 50, 0>>,
      <<"Bumper", "JB", 50, 5>> }

GroupCols == {"Category", "Product_Group"}

(***************************************************************************)
(* Float arithmetic, as exact rationals with one non-finite value.         *)
(***************************************************************************)
NaN == <<1, 0>>

Zero == <<0, 1>>

Abs(n) == IF n < 0 THEN 0 - n ELSE n

RECURSIVE GCD(_, _)
GCD(a, b) == IF b = 0 THEN a ELSE GCD(b, a % b)

Norm(n, d) ==
    IF d = 0 THEN NaN
    ELSE LET g == GCD(Abs(n), Abs(d))
             s == IF d < 0 THEN 0 - 1 ELSE 1
         IN  <<(s * n) \div g, (s * d) \div g>>

Rat(n) == <<n, 1>>

IsFinite(a) == a[2] /= 0

RAdd(a, b) ==
    IF ~IsFinite(a) \/ ~IsFinite(b) THEN NaN
    ELSE Norm(a[1] * b[2] + b[1] * a[2], a[2] * b[2])

RSub(a, b) ==
    IF ~IsFinite(a) \/ ~IsFinite(b) THEN NaN
    ELSE Norm(a[1] * b[2] - b[1] * a[2], a[2] * b[2])

RMul(a, b) ==
    IF ~IsFinite(a) \/ ~IsFinite(b) THEN NaN
    ELSE Norm(a[1] * b[1], a[2] * b[2])

RDiv(a, b) ==
    IF ~IsFinite(a) \/ ~IsFinite(b) THEN NaN
    ELSE Norm(a[1] * b[2], a[2] * b[1])

RGtZero(a) == IsFinite(a) /\ a[1] > 0

(***************************************************************************)
(* Rows and data frames.                                                   *)
(***************************************************************************)
RowTypes ==
    { [Year |-> y, Category |-> t[1], Product_Group |-> t[2],
       Revenue |-> t[3], Quantity |-> t[4]] :
         y \in YearSet, t \in SheetRows }

RECURSIVE BagsUpTo(_)
BagsUpTo(n) ==
    IF n = 0 THEN {EmptyBag}
    ELSE LET smaller == BagsUpTo(n - 1)
         IN  smaller \cup { b (+) SetToBag({r}) : b \in smaller, r \in RowTypes }

(* a cell the workbook leaves blank: read_excel gives NaN for it *)
NoKey == "nan"

(* rows of the bumper sheet with their Sub_Product and Customer columns    *)
(* (lines 33-36: read from the sheet, blank cells stay NaN) and rows of    *)
(* the carrier sheet (lines 53-54: both columns are '-'); amounts may be   *)
(* negative, lines 65-70 filter no sign                                    *)
DetailSheetRows ==
    { <<"Bumper", "GH", "FR", "HMC", 100, 10>>,
      <<"Bumper", "GH", "FR", "HMC", 0 - 20, 0 - 2>>,
      <<"Bumper", "GH", "RR", "HMC", 60, 5>>,
      <<"Bumper", "GH", NoKey, "HMC", 40, 4>>,
      <<"Carrier", "CV", "-", "-", 30, 3>> }

DetailRowTypes ==
    { [Year |-> y, Category |-> t[1], Product_Group |-> t[2],
       Sub_Product |-> t[3], Customer |-> t[4],
       Revenue |-> t[5], Quantity |-> t[6]] :
         y \in YearSet, t \in DetailSheetRows }

RECURSIVE BagsOf(_, _)
BagsOf(T, n) ==
    IF n = 0 THEN {EmptyBag}
    ELSE LET smaller == BagsOf(T, n - 1)
         IN  smaller \cup { b (+) SetToBag({r}) : b \in smaller, r \in T }

(* the worked example of the bridge: group GH in both periods, JB new in p1 *)
WorkedExample(p0, p1) ==
    SetToBag({ [Year |-> p0, Category |-> "Bumper", Product_Group |-> "GH",
                Revenue |-> 100, Quantity |-> 10],
               [Year |-> p1, Category |-> "Bumper", Product_Group |-> "GH",
                Revenue |-> 110, Quantity |-> 10],
               [Year |-> p1, Category |-> "Bumper", Product_Group |-> "JB",
                Revenue |-> 50, Quantity |-> 5] })

WorkedExamples == { WorkedExample(p0, p1) : p0, p1 \in YearSet }

RECURSIVE SeqsUpTo(_, _)
SeqsUpTo(S, n) ==
    IF n = 0 THEN {<<>>}
    ELSE LET shorter == SeqsUpTo(S, n - 1)
         IN  shorter \cup { Append(s, e) : s \in shorter, e \in S }

(* slip: the rows of a period are all rows up to it *)
YearRows_upto(d, y) ==
    LET keep == { r \in DOMAIN d : r.Year <= y }
    IN  [r \in keep |-> d[r]]

(* df[df['Year'] == y] *)
YearRows(d, y) ==
    LET keep == { r \in DOMAIN d : r.Year = y }
    IN  [r \in keep |-> d[r]]

RECURSIVE SumCol(_, _, _)
SumCol(d, rows, col) ==
    IF rows = {} THEN Zero
    ELSE LET r == CHOOSE x \in rows : TRUE
         IN  RAdd(Rat(r[col] * d[r]), SumCol(d, rows \ {r}, col))

(* .groupby(group_col).agg({'Revenue':'sum', 'Quantity':'sum'}).reset_index() *)
(* groupby keeps its default dropna=True: rows whose key is NaN form no     *)
(* group and are left out of the result                                    *)
GroupAgg(d, col) ==
    LET keys == { r[col] : r \in DOMAIN d } \ {NoKey}
    IN  [k \in keys |->
           LET rows == { r \in DOMAIN d : r[col] = k }
           IN  [Revenue |-> SumCol(d, rows, "Revenue"),
                Quantity |-> SumCol(d, rows, "Quantity")]]

RECURSIVE ColSum(_, _, _)
ColSum(t, keys, col) ==
    IF keys = {} THEN Zero
    ELSE LET k == CHOOSE x \in keys : TRUE
         IN  RAdd(t[k][col], ColSum(t, keys \ {k}, col))

(***************************************************************************)
(* sorted(): insertion sort of a list of periods, ascending.               *)
(***************************************************************************)
(* slip: the sort is descending *)
RECURSIVE Insert_descending(_, _)
Insert_descending(s, e) ==
    IF s = <<>> THEN <<e>>
    ELSE IF e > Head(s) THEN <<e>> \o s
    ELSE <<Head(s)>> \o Insert_descending(Tail(s), e)

RECURSIVE Insert(_, _)
Insert(s, e) ==
    IF s = <<>> THEN <<e>>
    ELSE IF e < Head(s) THEN <<e>> \o s
    ELSE <<Head(s)>> \o Insert(Tail(s), e)

(* slip: the periods are paired in the order given *)
sorted_not_done(s) == s

RECURSIVE sorted(_)
sorted(s) == IF s = <<>> THEN <<>> ELSE Insert(sorted(Tail(s)), Head(s))

(* set(seq) and df['Year'].unique() *)
ToSet(s) == { s[j] : j \in 1..Len(s) }

RECURSIVE SetToSeq(_)
SetToSeq(S) ==
    IF S = {} THEN <<>>
    ELSE LET e == CHOOSE x \in S : TRUE IN <<e>> \o SetToSeq(S \ {e})

YearsOf(d) == { r.Year : r \in DOMAIN d }

(* df[df['Year'].isin(ylist)] *)
IsIn(d, ylist) ==
    LET keep == { r \in DOMAIN d : r.Year \in ToSet(ylist) }
    IN  [r \in keep |-> d[r]]

(***************************************************************************)
(* The body of the loop of calculate_bridge_mix_steps, local by local.     *)
(***************************************************************************)
d_of(d, y, col) == GroupAgg(YearRows(d, y), col)

total_of(t, col) == ColSum(t, DOMAIN t, col)

(* slip: the average price is computed without the guard on total_q0 *)
avg_p0_unguarded(total_r0, total_q0) == RDiv(total_r0, total_q0)

avg_p0_of(total_r0, total_q0) ==
    IF RGtZero(total_q0) THEN RDiv(total_r0, total_q0) ELSE Zero

(* slip: an inner join, which drops new and churned groups *)
merge_inner(d0, d1) ==
    [k \in DOMAIN d0 \cap DOMAIN d1 |->
       [Revenue_0  |-> d0[k].Revenue, Quantity_0 |-> d0[k].Quantity,
        Revenue_1  |-> d1[k].Revenue, Quantity_1 |-> d1[k].Quantity]]

(* pd.merge(d0, d1, on=group_col, how='outer', suffixes=('_0','_1')).fillna(0) *)
merge_outer(d0, d1) ==
    [k \in DOMAIN d0 \cup DOMAIN d1 |->
       [Revenue_0  |-> IF k \in DOMAIN d0 THEN d0[k].Revenue  ELSE Zero,
        Quantity_0 |-> IF k \in DOMAIN d0 THEN d0[k].Quantity ELSE Zero,
        Revenue_1  |-> IF k \in DOMAIN d1 THEN d1[k].Revenue  ELSE Zero,
        Quantity_1 |-> IF k \in DOMAIN d1 THEN d1[k].Quantity ELSE Zero]]

(* slip: the division is not guarded *)
price_unguarded(r, q) == RDiv(r, q)

(* np.where(q > 0, r / q, 0) *)
price_of(r, q) == IF RGtZero(q) THEN RDiv(r, q) ELSE Zero

(* slip: the price change is weighted by the start quantity *)
with_prices_start_qty(m) ==
    [k \in DOMAIN m |->
       LET P0 == price_of(m[k].Revenue_0, m[k].Quantity_0)
           P1 == price_of(m[k].Revenue_1, m[k].Quantity_1)
       IN  [Revenue_0 |-> m[k].Revenue_0, Quantity_0 |-> m[k].Quantity_0,
            Revenue_1 |-> m[k].Revenue_1, Quantity_1 |-> m[k].Quantity_1,
            P0 |-> P0, P1 |-> P1,
            Price_Impact |-> RMul(RSub(P1, P0), m[k].Quantity_0)]]

with_prices(m) ==
    [k \in DOMAIN m |->
       LET P0 == price_of(m[k].Revenue_0, m[k].Quantity_0)
           P1 == price_of(m[k].Revenue_1, m[k].Quantity_1)
       IN  [Revenue_0 |-> m[k].Revenue_0, Quantity_0 |-> m[k].Quantity_0,
            Revenue_1 |-> m[k].Revenue_1, Quantity_1 |-> m[k].Quantity_1,
            P0 |-> P0, P1 |-> P1,
            Price_Impact |-> RMul(RSub(P1, P0), m[k].Quantity_1)]]

(* slip: the quantity change is taken the other way round *)
vol_effect_reversed(total_q0, total_q1, avg_p0) ==
    RMul(RSub(total_q0, total_q1), avg_p0)

vol_effect_of(total_q0, total_q1, avg_p0) ==
    RMul(RSub(total_q1, total_q0), avg_p0)

(* slip: groups new in the end period are left out of the price effect *)
price_effect_existing_only(merged) ==
    ColSum(merged, { k \in DOMAIN merged : RGtZero(merged[k].Quantity_0) }, "Price_Impact")

price_effect_of(merged) == ColSum(merged, DOMAIN merged, "Price_Impact")

(* slip: the price effect is added back instead of subtracted *)
mix_effect_sign_slip(total_variance, vol_effect, price_effect) ==
    RAdd(RSub(total_variance, vol_effect), price_effect)

mix_effect_of(total_variance, vol_effect, price_effect) ==
    RSub(RSub(total_variance, vol_effect), price_effect)

(* slip: a symmetric decomposition, with the mean of both periods' average  *)
(* prices as volume weight and the mean quantity as price weight           *)
Locals_symmetric(d, y0, y1, col) ==
    LET d0 == d_of(d, y0, col)
        d1 == d_of(d, y1, col)
        total_q0 == total_of(d0, "Quantity")
        total_q1 == total_of(d1, "Quantity")
        total_r0 == total_of(d0, "Revenue")
        total_r1 == total_of(d1, "Revenue")
        avg_p0 == avg_p0_of(total_r0, total_q0)
        avg_p1 == avg_p0_of(total_r1, total_q1)
        merged == with_prices(merge_outer(d0, d1))
        half == Norm(1, 2)
        vol_effect == RMul(RSub(total_q1, total_q0), RMul(half, RAdd(avg_p0, avg_p1)))
        sym == [k \in DOMAIN merged |->
                  [Price_Impact |->
                      RMul(RSub(merged[k].P1, merged[k].P0),
                           RMul(half, RAdd(merged[k].Quantity_0, merged[k].Quantity_1)))]]
        price_effect == ColSum(sym, DOMAIN sym, "Price_Impact")
        total_variance == RSub(total_r1, total_r0)
        mix_effect == mix_effect_of(total_variance, vol_effect, price_effect)
    IN  [y0 |-> y0, y1 |-> y1, d0 |-> d0, d1 |-> d1,
         total_q0 |-> total_q0, total_q1 |-> total_q1,
         total_r0 |-> total_r0, total_r1 |-> total_r1,
         avg_p0 |-> avg_p0, merged |-> merged,
         vol_effect |-> vol_effect, price_effect |-> price_effect,
         total_variance |-> total_variance, mix_effect |-> mix_effect]

(* lines 97-117: the locals of one iteration *)
Locals(d, y0, y1, col) ==
    LET d0 == d_of(d, y0, col)
        d1 == d_of(d, y1, col)
        total_q0 == total_of(d0, "Quantity")
        total_q1 == total_of(d1, "Quantity")
        total_r0 == total_of(d0, "Revenue")
        total_r1 == total_of(d1, "Revenue")
        avg_p0 == avg_p0_of(total_r0, total_q0)
        merged == with_prices(merge_outer(d0, d1))
        vol_effect == vol_effect_of(total_q0, total_q1, avg_p0)
        price_effect == price_effect_of(merged)
        total_variance == RSub(total_r1, total_r0)
        mix_effect == mix_effect_of(total_variance, vol_effect, price_effect)
    IN  [y0 |-> y0, y1 |-> y1, d0 |-> d0, d1 |-> d1,
         total_q0 |-> total_q0, total_q1 |-> total_q1,
         total_r0 |-> total_r0, total_r1 |-> total_r1,
         avg_p0 |-> avg_p0, merged |-> merged,
         vol_effect |-> vol_effect, price_effect |-> price_effect,
         total_variance |-> total_variance, mix_effect |-> mix_effect]

(* slip: the volume effect accumulates over the steps *)
StepOf_cumulative(l) ==
    [label |-> ToString(l.y0) \o "→" \o ToString(l.y1),
     start_year |-> ToString(l.y0),
     end_year |-> ToString(l.y1),
     volume |-> IF all_steps = <<>> THEN l.vol_effect
                ELSE RAdd(l.vol_effect, all_steps[Len(all_steps)].volume),
     price |-> l.price_effect,
     mix |-> l.mix_effect,
     start_val |-> l.total_r0,
     end_val |-> l.total_r1]

StepOf(l) ==
    [label |-> ToString(l.y0) \o "→" \o ToString(l.y1),
     start_year |-> ToString(l.y0),
     end_year |-> ToString(l.y1),
     volume |-> l.vol_effect,
     price |-> l.price_effect,
     mix |-> l.mix_effect,
     start_val |-> l.total_r0,
     end_val |-> l.total_r1]

NoLocals == [y0 |-> 0]

(* calculate_bridge_mix_steps as a function of its three arguments *)
RECURSIVE steps_from(_, _, _, _)
steps_from(d, s, col, j) ==
    IF j > Len(s) - 1 THEN <<>>
    ELSE <<StepOf(Locals(d, s[j], s[j + 1], col))>> \o steps_from(d, s, col, j + 1)

calculate_bridge_mix_steps(d, yrs, col) ==
    IF Len(yrs) < 2 THEN <<>> ELSE steps_from(d, sorted(yrs), col, 1)

(***************************************************************************)
(* The program: the loaded data, then calls of calculate_bridge_mix_steps  *)
(* from a direct caller, from the bridge tab and from the Excel report.    *)
(***************************************************************************)
(* the report side and the GPCM tool at rest *)
NoFilters == [selected_years |-> <<>>, sel_cat |-> "All Categories", sel_prod |-> "All Products"]

NoSheet == [c \in {} |-> 0]

NoFigure == [x |-> <<>>, y |-> <<>>, measure |-> <<>>]

ReportOff ==
    /\ filters = NoFilters
    /\ ws = NoSheet
    /\ sections = <<>>
    /\ bridge_no = 1
    /\ fig = <<>>
    /\ stage = "off"

KrOff ==
    /\ kpc = "off"
    /\ kin = <<>>
    /\ klog = <<>>
    /\ kout = <<>>

Init ==
    /\ data \in BagsUpTo(MaxRows) \cup WorkedExamples
    /\ df = EmptyBag
    /\ caller = "none"
    /\ years = <<>>
    /\ group_col = "Category"
    /\ pc = "idle"
    /\ ys = <<>>
    /\ i = 0
    /\ all_steps = <<>>
    /\ loc = NoLocals
    /\ ret = <<>>
    /\ view = "none"
    /\ ReportOff
    /\ KrOff

(* slip: one period is taken to be enough *)
enough_years_one(target_years) == Len(target_years) >= 1

(* lines 931 and 632: the callers' own check of the period list *)
enough_years(target_years) == Len(target_years) >= 2

(* line 89: the call binds the caller's frame and period list to the      *)
(* parameters; `years` stands for the caller's list object, `ys` for the   *)
(* local name once line 92 has rebound it                                 *)
Enter(c, d, yrs, col) ==
    /\ caller' = c
    /\ df' = d
    /\ years' = yrs
    /\ group_col' = col
    /\ all_steps' = <<>>
    /\ loc' = NoLocals
    /\ i' = 0
    /\ ret' = <<>>
    /\ ys' = <<>>
    /\ pc' = "called"

(* slip: the list is sorted in place, as years.sort() would *)
arg_after_sort_in_place(yrs) == sorted(yrs)

(* line 92: sorted() builds a new list and the local name is rebound to   *)
(* it; the list object the caller passed keeps its value                  *)
arg_after_sort(yrs) == yrs

(* slip: a period is kept once *)
Begin_distinct ==
    /\ pc = "called"
    /\ IF Len(years) < 2
         THEN /\ ret' = <<>>
              /\ pc' = "done"
              /\ UNCHANGED <<years, ys>>
         ELSE /\ ys' = sorted(SetToSeq(ToSet(years)))
              /\ years' = arg_after_sort(years)
              /\ pc' = "loop"
              /\ UNCHANGED ret
    /\ UNCHANGED <<data, df, caller, group_col, i, all_steps, loc, view>>
    /\ UNCHANGED <<report_vars, kr_vars>>

(* lines 90-92: the early return on fewer than 2 periods, else the sort *)
Begin ==
    /\ pc = "called"
    /\ IF Len(years) < 2
         THEN /\ ret' = <<>>
              /\ pc' = "done"
              /\ UNCHANGED <<years, ys>>
         ELSE /\ ys' = sorted(years)
              /\ years' = arg_after_sort(years)
              /\ pc' = "loop"
              /\ UNCHANGED ret
    /\ UNCHANGED <<data, df, caller, group_col, i, all_steps, loc, view>>
    /\ UNCHANGED <<report_vars, kr_vars>>

(* a call with any period list and any grouping column *)
Call ==
    /\ pc = "idle"
    /\ \E yrs \in SeqsUpTo(YearSet, MaxPeriods), col \in GroupCols :
          Enter("direct", data, yrs, col)
    /\ UNCHANGED <<data, view>>
    /\ UNCHANGED <<report_vars, kr_vars>>

(* slip: every step starts from the first period *)
LoopBody_from_first ==
    /\ pc = "loop"
    /\ i < Len(ys) - 1
    /\ LET l == Locals(df, ys[1], ys[i + 2], group_col)
       IN  /\ loc' = l
           /\ all_steps' = Append(all_steps, StepOf(l))
    /\ i' = i + 1
    /\ UNCHANGED <<data, df, caller, years, group_col, pc, ys, ret, view>>
    /\ UNCHANGED <<report_vars, kr_vars>>

(* lines 94-128: one iteration of the loop *)
LoopBody ==
    /\ pc = "loop"
    /\ i < Len(ys) - 1
    /\ LET l == Locals(df, ys[i + 1], ys[i + 2], group_col)
       IN  /\ loc' = l
           /\ all_steps' = Append(all_steps, StepOf(l))
    /\ i' = i + 1
    /\ UNCHANGED <<data, df, caller, years, group_col, pc, ys, ret, view>>
    /\ UNCHANGED <<report_vars, kr_vars>>

(* line 130, and what the caller does with the result *)
Return ==
    /\ pc = "loop"
    /\ i >= Len(ys) - 1
    /\ ret' = all_steps
    /\ pc' = "done"
    /\ view' = CASE caller = "tab" -> IF all_steps /= <<>> THEN "bridge" ELSE view
                 [] caller = "detail" -> IF all_steps /= <<>> THEN "bridge" ELSE "warning"
                 [] caller = "excel" -> "bridge"
                 [] OTHER -> view
    /\ UNCHANGED <<data, df, caller, years, group_col, ys, i, all_steps, loc>>
    /\ UNCHANGED <<report_vars, kr_vars>>

(* lines 929-952: the bridge tab of the dashboard *)
TabBridge ==
    /\ pc = "idle"
    /\ \E selected_years \in SeqsUpTo(YearsOf(data), MaxPeriods), col \in GroupCols :
          /\ Cardinality(ToSet(selected_years)) = Len(selected_years)
          /\ LET target_years == sorted(SetToSeq(ToSet(selected_years)))
             IN  IF enough_years(target_years)
                   THEN /\ Enter("tab", IsIn(data, selected_years), target_years, col)
                        /\ view' = "none"
                   ELSE /\ view' = "message"
                        /\ caller' = "tab"
                        /\ years' = target_years
                        /\ pc' = "done"
                        /\ UNCHANGED <<df, group_col, ys, i, all_steps, loc, ret>>
    /\ UNCHANGED data
    /\ UNCHANGED <<report_vars, kr_vars>>

(* lines 612-647: the PQ_Bridge sheet of the Excel report *)
ExcelBridge ==
    /\ pc = "idle"
    /\ data /= EmptyBag
    /\ \E col \in GroupCols :
          LET all_years_list == sorted(SetToSeq(YearsOf(data)))
              target_years == sorted(all_years_list)
          IN  IF enough_years(target_years)
                THEN /\ Enter("excel", IsIn(data, target_years), target_years, col)
                     /\ view' = "none"
                ELSE /\ view' = "message"
                     /\ caller' = "excel"
                     /\ years' = target_years
                     /\ pc' = "done"
                     /\ UNCHANGED <<df, group_col, ys, i, all_steps, loc, ret>>
    /\ UNCHANGED data
    /\ UNCHANGED <<report_vars, kr_vars>>

(* lines 744-748: the rows the sidebar filters leave *)
filtered_df_of(d, selected_years, sel_cat, sel_prod) ==
    LET keep == { r \in DOMAIN d :
                    /\ r.Year \in ToSet(selected_years)
                    /\ (sel_cat = "All Categories" \/ r.Category = sel_cat)
                    /\ (sel_prod = "All Products" \/ r.Product_Group = sel_prod) }
    IN  [r \in keep |-> d[r]]

(* line 962 *)
detail_col_of(sel_cat) == IF sel_cat = "Bumper" THEN "Sub_Product" ELSE "Customer"

(* lines 929-931 and 956-968: the detailed bridge of the bridge tab, for a *)
(* selected category and product group                                     *)
DetailBridge ==
    /\ pc = "idle"
    /\ \E selected_years \in SeqsUpTo(YearsOf(data), MaxPeriods),
          sel_cat \in { r.Category : r \in DOMAIN data } :
        \E sel_prod \in { r.Product_Group : r \in { x \in DOMAIN data : x.Category = sel_cat } } :
          /\ Cardinality(ToSet(selected_years)) = Len(selected_years)
          /\ LET target_years == sorted(SetToSeq(ToSet(selected_years)))
             IN  IF enough_years(target_years)
                   THEN /\ Enter("detail",
                                 filtered_df_of(data, selected_years, sel_cat, sel_prod),
                                 target_years, detail_col_of(sel_cat))
                        /\ view' = "none"
                   ELSE /\ view' = "message"
                        /\ caller' = "detail"
                        /\ years' = target_years
                        /\ pc' = "done"
                        /\ UNCHANGED <<df, group_col, ys, i, all_steps, loc, ret>>
    /\ UNCHANGED data
    /\ UNCHANGED <<report_vars, kr_vars>>

(* the script is run again from the top *)
Rerun ==
    /\ pc = "done"
    /\ pc' = "idle"
    /\ df' = EmptyBag
    /\ caller' = "none"
    /\ years' = <<>>
    /\ group_col' = "Category"
    /\ ys' = <<>>
    /\ i' = 0
    /\ all_steps' = <<>>
    /\ loc' = NoLocals
    /\ ret' = <<>>
    /\ view' = "none"
    /\ UNCHANGED data
    /\ UNCHANGED <<report_vars, kr_vars>>

Next == Call \/ Begin \/ LoopBody \/ Return \/ TabBridge \/ ExcelBridge \/ Rerun

Spec == Init /\ [][Next]_vars

(***************************************************************************)
(* The report side of the dashboard: the PQ_Bridge sheet of the Excel      *)
(* report, the waterfall charts of the bridge tab, the sidebar filters.    *)
(***************************************************************************)
(* a workbook with one row in each of three years, for a two-step bridge *)
ThreeYearSheet ==
    SetToBag({ [Year |-> 2021, Category |-> "Bumper", Product_Group |-> "GH",
                Sub_Product |-> "FR", Customer |-> "HMC", Revenue |-> 100, Quantity |-> 10],
               [Year |-> 2022, Category |-> "Bumper", Product_Group |-> "GH",
                Sub_Product |-> "FR", Customer |-> "HMC", Revenue |-> 60, Quantity |-> 5],
               [Year |-> 2023, Category |-> "Carrier", Product_Group |-> "CV",
                Sub_Product |-> "-", Customer |-> "-", Revenue |-> 30, Quantity |-> 3] })

(* lines 36, 43, 51: the three category names, as sorted() orders them *)
CategoryOrder == <<"Bumper", "Carrier", "Sill side">>

(* sorted(df['Category'].unique()) *)
categories_of(d) ==
    SelectSeq(CategoryOrder, LAMBDA c : c \in { r.Category : r \in DOMAIN d })

(* df[df['Category'] == cat] *)
CategoryRows(d, cat) ==
    LET keep == { r \in DOMAIN d : r.Category = cat }
    IN  [r \in keep |-> d[r]]

(* ws.cell(row, col, value) for the cells of new; a later write wins *)
Put(w, new) ==
    [rc \in DOMAIN w \cup DOMAIN new |-> IF rc \in DOMAIN new THEN new[rc] ELSE w[rc]]

(* line 616 *)
headers ==
    <<"Period", "Start Revenue", "Volume Effect", "Price Effect", "Mix Effect",
      "End Revenue", "Total Change">>

(* slip: the change is taken from end to start *)
total_change_reversed(step) == RSub(step.start_val, step.end_val)

(* line 628: step['end_val'] - step['start_val'] *)
total_change_of(step) == RSub(step.end_val, step.start_val)

(* lines 623-628: the cells of the row of one step *)
step_cell(step, col) ==
    CASE col = 1 -> step.label
      [] col = 2 -> step.start_val
      [] col = 3 -> step.volume
      [] col = 4 -> step.price
      [] col = 5 -> step.mix
      [] col = 6 -> step.end_val
      [] col = 7 -> total_change_of(step)

(* lines 614-630; the merged title cell is cell (start_row, 1) *)
write_bridge_section(w, title, steps, start_row) ==
    LET titled == Put(w, [rc \in {<<start_row, 1>>} |-> title])
        headed == Put(titled, [rc \in { <<start_row + 1, col>> : col \in 1..7 } |->
                                  headers[rc[2]]])
        rows == { <<start_row + 2 + j, col>> : j \in 0..(Len(steps) - 1), col \in 1..7 }
        filled == Put(headed, [rc \in rows |->
                                  step_cell(steps[rc[1] - start_row - 1], rc[2])])
    IN  [ws |-> filled, ret |-> start_row + Len(steps) + 3]

(* lines 640-645: one section per category, in sorted order *)
RECURSIVE category_sections(_, _, _, _)
category_sections(acc, df_company, target_years, cats) ==
    IF cats = <<>> THEN acc
    ELSE LET cat == Head(cats)
             res_cat == calculate_bridge_mix_steps(CategoryRows(df_company, cat),
                                                   target_years, "Product_Group")
             title == "3. " \o cat \o " Bridge (by Product Group)"
             w == write_bridge_section(acc.ws, title, res_cat, acc.next_row)
             written == [ws |-> w.ws, next_row |-> w.ret,
                         sections |-> Append(acc.sections,
                             [title |-> title, steps |-> res_cat,
                              start_row |-> acc.next_row, ret |-> w.ret])]
         IN  category_sections(IF res_cat /= <<>> THEN written ELSE acc,
                               df_company, target_years, Tail(cats))

(* line 647: the note written instead of the bridge (Korean in the source) *)
too_few_years_note == "at least 2 years are needed for the Bridge analysis"

(* lines 181, 601, 610-647: the PQ_Bridge sheet of generate_excel_report *)
generate_excel_report(d, all_years_list) ==
    LET target_years == sorted(all_years_list)
        df_company == IsIn(d, target_years)
        t1 == "1. Company-Wide Bridge (by Major Category)"
        t2 == "2. All Categories Bridge (by Product Group)"
        res1 == calculate_bridge_mix_steps(df_company, target_years, "Category")
        w1 == write_bridge_section(NoSheet, t1, res1, 1)
        res2 == calculate_bridge_mix_steps(df_company, target_years, "Product_Group")
        w2 == write_bridge_section(w1.ws, t2, res2, w1.ret)
        two == [ws |-> w2.ws, next_row |-> w2.ret,
                sections |-> << [title |-> t1, steps |-> res1, start_row |-> 1, ret |-> w1.ret],
                                [title |-> t2, steps |-> res2, start_row |-> w1.ret, ret |-> w2.ret] >>]
    IN  IF enough_years(target_years)
          THEN category_sections(two, df_company, target_years, categories_of(d))
          ELSE [ws |-> Put(NoSheet, [rc \in {<<1, 1>>} |-> too_few_years_note]),
                next_row |-> 1, sections |-> <<>>]

(* slip: Volume, Price, Mix *)
effects_price_before_mix(step) ==
    << <<"Volume", step.volume>>, <<"Price", step.price>>, <<"Mix", step.mix>> >>

(* line 143: the order of the three effect bars of a step *)
effects_of(step) ==
    << <<"Volume", step.volume>>, <<"Mix", step.mix>>, <<"Price", step.price>> >>

(* lines 142-153: the bars of the steps, appended in order *)
RECURSIVE waterfall_bars(_, _)
waterfall_bars(acc, steps) ==
    IF steps = <<>> THEN acc
    ELSE LET step == Head(steps)
             eff == effects_of(step)
             bars == [x |-> acc.x \o [e \in 1..3 |-> eff[e][1] \o "<br>(" \o step.label \o ")"]
                             \o <<step.end_year>>,
                      y |-> acc.y \o [e \in 1..3 |-> eff[e][2]] \o <<step.end_val>>,
                      measure |-> acc.measure \o <<"relative", "relative", "relative", "absolute">>]
         IN  waterfall_bars(bars, Tail(steps))

(* lines 132-168: the x, y and measure series of the waterfall trace *)
create_waterfall_fig_multi(steps) ==
    IF steps = <<>> THEN NoFigure
    ELSE waterfall_bars([x |-> <<steps[1].start_year>>,
                         y |-> <<steps[1].start_val>>,
                         measure |-> <<"absolute">>], steps)

(* lines 713-732: what the sidebar widgets can hold for the loaded data *)
FilterStates(d) ==
    { [selected_years |-> sy, sel_cat |-> c, sel_prod |-> p] :
        sy \in { q \in SeqsUpTo(YearsOf(d), MaxPeriods) : Cardinality(ToSet(q)) = Len(q) },
        c \in {"All Categories"} \cup { r.Category : r \in DOMAIN d },
        p \in {"All Products"} \cup { r.Product_Group : r \in DOMAIN d } }

(* lines 722-732: the product options follow the selected category *)
ValidFilters(d, f) ==
    \/ f.sel_prod = "All Products"
    \/ \E r \in DOMAIN d :
          /\ r.Product_Group = f.sel_prod
          /\ (f.sel_cat = "All Categories" \/ r.Category = f.sel_cat)

(* slip: the report is built from the filtered rows and the selected years *)
excel_args_filtered(d, all_years_list, f) ==
    [df |-> filtered_df_of(d, f.selected_years, f.sel_cat, f.sel_prod),
     years |-> f.selected_years]

(* line 708: generate_excel_report(df, all_years_list) *)
excel_args(d, all_years_list, f) == [df |-> d, years |-> all_years_list]

(* a run of the script on an uploaded workbook, the widgets holding any    *)
(* state the user left them in                                             *)
InitReport ==
    /\ data \in (BagsOf(DetailRowTypes, MaxRows) \ {EmptyBag}) \cup {ThreeYearSheet}
    /\ filters \in { f \in FilterStates(data) : ValidFilters(data, f) }
    /\ ws = NoSheet
    /\ sections = <<>>
    /\ bridge_no = 1
    /\ fig = <<>>
    /\ stage = "loaded"
    /\ df = EmptyBag
    /\ caller = "none"
    /\ years = <<>>
    /\ group_col = "Category"
    /\ pc = "idle"
    /\ ys = <<>>
    /\ i = 0
    /\ all_steps = <<>>
    /\ loc = NoLocals
    /\ ret = <<>>
    /\ view = "none"
    /\ KrOff

(* lines 634-643: the rows, the grouping column and the title of the      *)
(* n-th bridge of the sheet                                                *)
section_of(n, df_company, cats) ==
    IF n = 1
      THEN [rows |-> df_company, col |-> "Category",
            title |-> "1. Company-Wide Bridge (by Major Category)"]
    ELSE IF n = 2
      THEN [rows |-> df_company, col |-> "Product_Group",
            title |-> "2. All Categories Bridge (by Product Group)"]
    ELSE [rows |-> CategoryRows(df_company, cats[n - 2]), col |-> "Product_Group",
          title |-> "3. " \o cats[n - 2] \o " Bridge (by Product Group)"]

(* the value of the local next_row: 1 at first, then what the last call of *)
(* write_bridge_section returned                                           *)
next_row_of(secs) == IF secs = <<>> THEN 1 ELSE secs[Len(secs)].ret

(* lines 707-708 and 610-647: generate_excel_report is called, before any  *)
(* widget is read, and writes the PQ_Bridge sheet bridge by bridge         *)
WriteSection ==
    /\ stage = "loaded"
    /\ \E args \in { excel_args(data, sorted(SetToSeq(YearsOf(data))), filters) } :
       \E target_years \in { sorted(args.years) } :
         IF ~enough_years(target_years)
           THEN /\ ws' = Put(NoSheet, [rc \in {<<1, 1>>} |-> too_few_years_note])
                /\ stage' = "reported"
                /\ UNCHANGED <<sections, bridge_no>>
           ELSE \E df_company \in { IsIn(args.df, target_years) } :
                \E cats \in { categories_of(args.df) } :
                \E part \in { section_of(bridge_no, df_company, cats) } :
                \E res \in { calculate_bridge_mix_steps(part.rows, target_years, part.col) } :
                \E w \in { write_bridge_section(ws, part.title, res, next_row_of(sections)) } :
                  /\ IF bridge_no <= 2 \/ res /= <<>>
                       THEN /\ ws' = w.ws
                            /\ sections' = Append(sections,
                                   [title |-> part.title, steps |-> res,
                                    start_row |-> next_row_of(sections), ret |-> w.ret])
                       ELSE UNCHANGED <<ws, sections>>
                  /\ bridge_no' = bridge_no + 1
                  /\ stage' = IF bridge_no >= 2 + Len(cats) THEN "reported" ELSE "loaded"
    /\ UNCHANGED <<data, filters, fig>>
    /\ UNCHANGED <<df, caller, years, group_col, pc, ys, i, all_steps, loc, ret, view>>
    /\ UNCHANGED kr_vars

(* st.plotly_chart(create_waterfall_fig_multi(res)) when res is not empty *)
Plotted(charts, res) ==
    IF res /= <<>>
      THEN Append(charts, [steps |-> res, chart |-> create_waterfall_fig_multi(res)])
      ELSE charts

(* lines 714-748 and 925-973: the widgets are read and the bridge tab drawn *)
ShowBridgeTab ==
    /\ stage = "reported"
    /\ LET selected_years == filters.selected_years
           sel_cat == filters.sel_cat
           sel_prod == filters.sel_prod
       IN  \E target_years \in { sorted(SetToSeq(ToSet(selected_years))) } :
           \E df_company \in { IsIn(data, selected_years) } :
           \E filtered_df \in { filtered_df_of(data, selected_years, sel_cat, sel_prod) } :
           \E res1 \in { calculate_bridge_mix_steps(df_company, target_years, "Category") } :
           \E res2 \in { IF sel_cat = "All Categories"
                           THEN calculate_bridge_mix_steps(df_company, target_years,
                                                           "Product_Group")
                           ELSE calculate_bridge_mix_steps(CategoryRows(df_company, sel_cat),
                                                           target_years, "Product_Group") } :
           \E res3 \in { IF sel_cat /= "All Categories" /\ sel_prod /= "All Products"
                           THEN calculate_bridge_mix_steps(filtered_df, target_years,
                                                           detail_col_of(sel_cat))
                           ELSE <<>> } :
             fig' = IF enough_years(target_years)
                      THEN Plotted(Plotted(Plotted(<<>>, res1), res2), res3)
                      ELSE <<>>
    /\ stage' = "shown"
    /\ UNCHANGED <<data, filters, ws, sections, bridge_no>>
    /\ UNCHANGED <<df, caller, years, group_col, pc, ys, i, all_steps, loc, ret, view>>
    /\ UNCHANGED kr_vars

(* the user changes a sidebar widget: the script runs again from the top *)
ChangeFilters ==
    /\ stage = "shown"
    /\ \E f \in FilterStates(data) :
          /\ ValidFilters(data, f)
          /\ f /= filters
          /\ filters' = f
    /\ ws' = NoSheet
    /\ sections' = <<>>
    /\ bridge_no' = 1
    /\ fig' = <<>>
    /\ stage' = "loaded"
    /\ UNCHANGED data
    /\ UNCHANGED <<df, caller, years, group_col, pc, ys, i, all_steps, loc, ret, view>>
    /\ UNCHANGED kr_vars

NextReport == WriteSection \/ ShowBridgeTab \/ ChangeFilters

SpecReport == InitReport /\ [][NextReport]_vars

(* the dashboard on a workbook whose bumper sheet has blank Sub_Product    *)
(* cells and rows with negative amounts                                    *)
InitDetail ==
    /\ data \in BagsOf(DetailRowTypes, MaxRows)
    /\ df = EmptyBag
    /\ caller = "none"
    /\ years = <<>>
    /\ group_col = "Category"
    /\ pc = "idle"
    /\ ys = <<>>
    /\ i = 0
    /\ all_steps = <<>>
    /\ loc = NoLocals
    /\ ret = <<>>
    /\ view = "none"
    /\ ReportOff
    /\ KrOff

NextDetail == DetailBridge \/ Begin \/ LoopBody \/ Return \/ Rerun

SpecDetail == InitDetail /\ [][NextDetail]_vars

(***************************************************************************)
(* The Korean GPCM tool (gpcm_kr.py).  Text is a sequence of one-character *)
(* strings, None is the empty tuple and a value v is <<v>>.                *)
(***************************************************************************)
None == <<>>

Some(v) == <<v>>

DigitChars == <<"0", "1", "2", "3", "4", "5", "6", "7", "8", "9">>

IsDigit(c) == \E d \in 1..10 : DigitChars[d] = c

digit_of(c) == (CHOOSE d \in 1..10 : DigitChars[d] = c) - 1

(* str(n) of a natural number *)
RECURSIVE str_of_int(_)
str_of_int(n) ==
    IF n < 10 THEN <<DigitChars[n + 1]>>
    ELSE str_of_int(n \div 10) \o <<DigitChars[(n % 10) + 1]>>

(* the value of a run of digits *)
RECURSIVE digits_value(_)
digits_value(t) ==
    IF t = <<>> THEN 0
    ELSE 10 * digits_value(SubSeq(t, 1, Len(t) - 1)) + digit_of(t[Len(t)])

AllDigits(t) == t /= <<>> /\ \A j \in 1..Len(t) : IsDigit(t[j])

(* s.strip() *)
RECURSIVE strip(_)
strip(t) ==
    IF t = <<>> THEN t
    ELSE IF Head(t) = " " THEN strip(Tail(t))
    ELSE IF t[Len(t)] = " " THEN strip(SubSeq(t, 1, Len(t) - 1))
    ELSE t

(* s.split('.') *)
RECURSIVE split_dot(_, _, _)
split_dot(t, cur, parts) ==
    IF t = <<>> THEN Append(parts, cur)
    ELSE IF Head(t) = "." THEN split_dot(Tail(t), <<>>, Append(parts, cur))
    ELSE split_dot(Tail(t), Append(cur, Head(t)), parts)

(* the quarter names of the selectbox of line 411 as text *)
QtrText ==
    [q \in {"1Q", "2Q", "3Q", "4Q"} |->
        CASE q = "1Q" -> <<"1", "Q">> [] q = "2Q" -> <<"2", "Q">>
          [] q = "3Q" -> <<"3", "Q">> [] q = "4Q" -> <<"4", "Q">>]

(* line 413: f"{sel_year}.{sel_qtr}" *)
base_period_str_of(sel_year, sel_qtr) ==
    str_of_int(sel_year) \o <<".">> \o QtrText[sel_qtr]

(* lines 32-34 *)
parse_period(p) ==
    LET parts == split_dot(strip(p), <<>>, <<>>)
    IN  <<digits_value(parts[1]), parts[2]>>

(* slip: the prior periods are taken from the same year *)
get_ltm_required_periods_same_year(base_period) ==
    LET year == parse_period(base_period)[1]
        qtr == parse_period(base_period)[2]
    IN  IF qtr = QtrText["4Q"]
          THEN << <<year, QtrText["4Q"], "annual">> >>
          ELSE << <<year, qtr, "current_cum">>,
                  <<year, QtrText["4Q"], "prior_annual">>,
                  <<year, qtr, "prior_same_q">> >>

(* lines 39-47 *)
get_ltm_required_periods(base_period) ==
    LET year == parse_period(base_period)[1]
        qtr == parse_period(base_period)[2]
    IN  IF qtr = QtrText["4Q"]
          THEN << <<year, QtrText["4Q"], "annual">> >>
          ELSE << <<year, qtr, "current_cum">>,
                  <<year - 1, QtrText["4Q"], "prior_annual">>,
                  <<year - 1, qtr, "prior_same_q">> >>

(* the three accounts of line 587, in the order of the LTM_Calc sheet *)
ltm_keys == <<"Revenue", "EBIT", "NI">>

(* line 597: val / 1e8 *)
Unit == 100000000

(* what fetch_pl_df, filter_income_statement and pick_pl_value give for a  *)
(* period: nothing, or an amount in KRW or None for each account           *)
PLStatements ==
    { None,
      Some([Revenue |-> Some(1250000000), EBIT |-> Some(300000000), NI |-> Some(0 - 100000000)]),
      Some([Revenue |-> Some(500000000), EBIT |-> None, NI |-> Some(50000000)]) }

(* line 420: the ticker text area, split into lines at line 463 *)
TickerLists == { <<"000250">>, <<"000250", "039030">>, <<"000250", "000250">> }

(* lines 409-411 *)
YearInputs == {2020, 2025}

(* lines 589-603: the rows appended to raw_pl_rows for one period *)
RECURSIVE pl_rows_of(_, _, _, _)
pl_rows_of(ticker, role, st, keys) ==
    IF keys = <<>> \/ st = None THEN <<>>
    ELSE LET k == Head(keys)
             val == st[1][k]
             rest == pl_rows_of(ticker, role, st, Tail(keys))
         IN  IF val = None THEN rest
             ELSE <<[Ticker |-> ticker, Role |-> role, calc_key |-> k,
                     Amount_100M |-> Norm(val[1], Unit)]>> \o rest

(* d_sub[(calc_key == k) & (Role == role)]['Amount_100M'].sum(), and the   *)
(* SUMIFS over PL_Data of lines 740-744                                    *)
RECURSIVE role_sum(_, _, _, _)
role_sum(rows, ticker, k, role) ==
    IF rows = <<>> THEN Zero
    ELSE LET r == Head(rows)
             rest == role_sum(Tail(rows), ticker, k, role)
         IN  IF r.Ticker = ticker /\ r.calc_key = k /\ r.Role = role
               THEN RAdd(r.Amount_100M, rest)
               ELSE rest

(* slip: the prior same-quarter figure is added *)
ltm_of_all_added(base_qtr, curr_cum, prior_ann, prior_same, annual_only) ==
    IF base_qtr = QtrText["4Q"] THEN annual_only
    ELSE RAdd(RAdd(curr_cum, prior_ann), prior_same)

(* lines 628-631, and the formulas of lines 743-746 *)
ltm_of(base_qtr, curr_cum, prior_ann, prior_same, annual_only) ==
    IF base_qtr = QtrText["4Q"] THEN annual_only
    ELSE RSub(RAdd(curr_cum, prior_ann), prior_same)

(* lines 619-631 and 735-747: the LTM of the preview and of LTM_Calc *)
ltm_table(rows, tickers, base_qtr) ==
    [t \in 1..Len(tickers) |->
        [k \in {"Revenue", "EBIT", "NI"} |->
            LET curr_cum == role_sum(rows, tickers[t], k, "current_cum")
                prior_ann == role_sum(rows, tickers[t], k, "prior_annual")
                prior_same == role_sum(rows, tickers[t], k, "prior_same_q")
                annual_only == role_sum(rows, tickers[t], k, "annual")
            IN  [A |-> curr_cum, B |-> prior_ann, C |-> prior_same,
                 LTM_Value |-> ltm_of(base_qtr, curr_cum, prior_ann, prior_same, annual_only),
                 Note |-> IF base_qtr = QtrText["4Q"] THEN "Annual" ELSE "A+B-C"]]]

(* the sidebar holds a year, a quarter and the ticker lines *)
InitLTM ==
    /\ kpc = "sidebar"
    /\ kin \in [sel_year : YearInputs, sel_qtr : {"1Q", "2Q", "3Q", "4Q"}, tickers : TickerLists]
    /\ klog = <<>>
    /\ kout = <<>>
    /\ data = EmptyBag
    /\ df = EmptyBag
    /\ caller = "none"
    /\ years = <<>>
    /\ group_col = "Category"
    /\ pc = "idle"
    /\ ys = <<>>
    /\ i = 0
    /\ all_steps = <<>>
    /\ loc = NoLocals
    /\ ret = <<>>
    /\ view = "none"
    /\ ReportOff

bridge_vars == <<data, df, caller, years, group_col, pc, ys, i, all_steps, loc, ret, view>>

(* lines 413 and 484-486: the run button *)
RunLTM ==
    /\ kpc = "sidebar"
    /\ LET base_period_str == base_period_str_of(kin.sel_year, kin.sel_qtr)
       IN  klog' = [base_qtr |-> parse_period(base_period_str)[2],
                    required_periods |-> get_ltm_required_periods(base_period_str),
                    raw_pl_rows |-> <<>>, fetched |-> <<>>, t |-> 1, p |-> 1]
    /\ kpc' = "collect"
    /\ UNCHANGED <<kin, kout, bridge_vars, report_vars>>

(* lines 518-520 and 580-609: the income statement of one period of one    *)
(* ticker is fetched and its rows are appended                             *)
FetchPL ==
    /\ kpc = "collect"
    /\ \E st \in PLStatements :
          LET role == klog.required_periods[klog.p][3]
              last_p == klog.p = Len(klog.required_periods)
              last_t == klog.t = Len(kin.tickers)
          IN  /\ klog' = [klog EXCEPT
                            !.raw_pl_rows = @ \o pl_rows_of(kin.tickers[klog.t], role, st, ltm_keys),
                            !.fetched = Append(@, st),
                            !.p = IF last_p THEN 1 ELSE @ + 1,
                            !.t = IF last_p THEN @ + 1 ELSE @]
              /\ kpc' = IF last_p /\ last_t THEN "collected" ELSE "collect"
    /\ UNCHANGED <<kin, kout, bridge_vars, report_vars>>

(* lines 614-636 and 728-747: the preview table and the LTM_Calc sheet *)
ShowLTM ==
    /\ kpc = "collected"
    /\ kout' = [preview |-> IF klog.raw_pl_rows /= <<>>
                              THEN ltm_table(klog.raw_pl_rows, kin.tickers, klog.base_qtr)
                              ELSE <<>>,
                LTM_Calc |-> ltm_table(klog.raw_pl_rows, kin.tickers, klog.base_qtr)]
    /\ kpc' = "done"
    /\ UNCHANGED <<kin, klog, bridge_vars, report_vars>>

NextLTM == RunLTM \/ FetchPL \/ ShowLTM

SpecLTM == InitLTM /\ [][NextLTM]_vars

(* the bridge and the report at rest, for the runs of the GPCM tool *)
DashboardOff ==
    /\ data = EmptyBag
    /\ df = EmptyBag
    /\ caller = "none"
    /\ years = <<>>
    /\ group_col = "Category"
    /\ pc = "idle"
    /\ ys = <<>>
    /\ i = 0
    /\ all_steps = <<>>
    /\ loc = NoLocals
    /\ ret = <<>>
    /\ view = "none"
    /\ ReportOff

(* line 268: max_retry=2 *)
max_retry == 2

(* lines 299-311: the calls of fetch_pl_df in their order, with the label  *)
(* f'finstate|{fs}' each returns under                                      *)
Sources ==
    << [fn |-> "finstate", fs_div |-> Some("CFS"), label |-> "finstate|" \o "CFS"],
       [fn |-> "finstate", fs_div |-> Some("OFS"), label |-> "finstate|" \o "OFS"],
       [fn |-> "finstate", fs_div |-> None, label |-> "finstate|no_fs_div"],
       [fn |-> "finstate_all", fs_div |-> Some("CFS"), label |-> "finstate_all|" \o "CFS"],
       [fn |-> "finstate_all", fs_div |-> Some("OFS"), label |-> "finstate_all|" \o "OFS"],
       [fn |-> "finstate_all", fs_div |-> None, label |-> "finstate_all|no_fs_div"] >>

(* lines 268-296: what safe_finstate and safe_finstate_all can return for  *)
(* a request: the frame of the first attempt that does not raise (rows,    *)
(* an empty frame or None), or None with the last error once all           *)
(* max_retry + 1 attempts have raised                                      *)
safe_finstate(src) ==
    { [df |-> Some([fn |-> src.fn, fs_div |-> src.fs_div, rows |-> 3]),
       err |-> None, attempts |-> 1],
      [df |-> Some([fn |-> src.fn, fs_div |-> src.fs_div, rows |-> 3]),
       err |-> None, attempts |-> max_retry + 1],
      [df |-> Some([fn |-> src.fn, fs_div |-> src.fs_div, rows |-> 0]),
       err |-> None, attempts |-> 1],
      [df |-> None, err |-> None, attempts |-> 1],
      [df |-> None, err |-> Some("error"), attempts |-> max_retry + 1] }

(* slip: an empty frame is taken as a result *)
has_rows_or_is_empty(frame) == frame /= None

(* df is not None and not df.empty *)
has_rows(frame) == frame /= None /\ frame[1].rows > 0

InitFetch ==
    /\ kpc = "fetch"
    /\ kin \in [corp_code : {"00126380"}, year : {2024, 2025}, reprt_code : {"11011", "11014"}]
    /\ klog = <<>>
    /\ kout = <<>>
    /\ DashboardOff

(* lines 298-313: the next call of fetch_pl_df and what follows it *)
TrySource ==
    /\ kpc = "fetch"
    /\ Len(klog) < Len(Sources)
    /\ LET src == Sources[Len(klog) + 1]
       IN  \E res \in safe_finstate(src) :
             /\ klog' = Append(klog, [label |-> src.label, df |-> res.df, attempts |-> res.attempts])
             /\ IF has_rows(res.df)
                  THEN /\ kout' = <<res.df, src.label, None>>
                       /\ kpc' = "done"
                  ELSE IF Len(klog) + 1 = Len(Sources)
                         THEN /\ kout' = <<None, "N/A", Some("NO_DATA")>>
                              /\ kpc' = "done"
                         ELSE UNCHANGED <<kout, kpc>>
    /\ UNCHANGED <<kin, bridge_vars, report_vars>>

(* line 581: the caller asks for the next period *)
NextPeriod ==
    /\ kpc = "done"
    /\ \E y \in {2024, 2025}, r \in {"11011", "11014"} :
          /\ <<y, r>> /= <<kin.year, kin.reprt_code>>
          /\ kin' = [kin EXCEPT !.year = y, !.reprt_code = r]
    /\ klog' = <<>>
    /\ kout' = <<>>
    /\ kpc' = "fetch"
    /\ UNCHANGED <<bridge_vars, report_vars>>

NextFetch == TrySource \/ NextPeriod

SpecFetch == InitFetch /\ [][NextFetch]_vars

(* s.replace(',', '') *)
without_commas(t) == SelectSeq(t, LAMBDA c : c /= ",")

(* s.lower(), for the letters the cells hold *)
lower(t) ==
    [j \in 1..Len(t) |-> CASE t[j] = "N" -> "n" [] t[j] = "A" -> "a" [] OTHER -> t[j]]

(* int(float(s)) for an optional sign, digits and an optional fraction:    *)
(* the integer part with its sign; None where float() raises ValueError    *)
int_of_float(t) ==
    LET negative == t /= <<>> /\ Head(t) = "-"
        signed == t /= <<>> /\ Head(t) \in {"-", "+"}
        body == IF signed THEN Tail(t) ELSE t
        parts == split_dot(body, <<>>, <<>>)
        whole == parts[1]
        well_formed == /\ Len(parts) <= 2
                       /\ AllDigits(whole)
                       /\ Len(parts) = 2 => (parts[2] = <<>> \/ AllDigits(parts[2]))
    IN  IF well_formed
          THEN Some(IF negative THEN 0 - digits_value(whole) ELSE digits_value(whole))
          ELSE None

(* lines 84-93; x is None or Some(text) *)
to_int(x) ==
    IF x = None THEN None
    ELSE LET s == without_commas(strip(x[1]))
         IN  IF s = <<>> \/ lower(s) = <<"n", "a", "n">> THEN None
             ELSE int_of_float(s)

(* texts of the cells of the DART row and of the KRX listing *)
Dash == Some(<<"-">>)

Text0 == Some(<<"0">>)

TextMinus5 == Some(<<"-", "5">>)

Text1000 == Some(<<" ", "1", ",", "0", "0", "0">>)

Text2000 == Some(<<"2", ",", "0", "0", "0">>)

TextNaN == Some(<<"N", "a", "N">>)

Text500 == Some(<<"5", "0", "0">>)

Text2500 == Some(<<"2", "5", "0", "0">>)

Text750 == Some(<<"7", "5", "0", ".", "0">>)

(* lines 107-117 and 127: what the stockTotqySttus request can come back   *)
(* with: an exception, a status other than '000', an empty list, or the    *)
(* picked row with its three share cells                                   *)
DartResponses ==
    { [kind |-> "error", status |-> "ERR", distb_stock_co |-> None, istc_totqy |-> None, tesstk_co |-> None],
      [kind |-> "json", status |-> "013", distb_stock_co |-> None, istc_totqy |-> None, tesstk_co |-> None],
      [kind |-> "empty", status |-> "000", distb_stock_co |-> None, istc_totqy |-> None, tesstk_co |-> None] }
    \cup
    { [kind |-> "row", status |-> "000", distb_stock_co |-> a, istc_totqy |-> b, tesstk_co |-> c] :
        a \in {None, Dash, Text0, TextMinus5, Text1000},
        b \in {None, TextNaN, Text2000},
        c \in {None, Text500, Text2500} }

(* the KRX listing: not loaded, without the ticker, or with its Stocks cell *)
KrxListings ==
    { [kind |-> "unavailable", Stocks |-> None], [kind |-> "no_row", Stocks |-> None] }
    \cup { [kind |-> "row", Stocks |-> x] : x \in {None, Text0, TextMinus5, Text750} }

(* lines 98-146 *)
fetch_dart_distb_shares(resp) ==
    IF resp.kind = "error" THEN None
    ELSE IF resp.status /= "000" THEN None
    ELSE IF resp.kind = "empty" THEN None
    ELSE LET shares == to_int(resp.distb_stock_co)
             istc == to_int(resp.istc_totqy)
             tes == to_int(resp.tesstk_co)
         IN  IF shares /= None THEN shares
             ELSE IF istc /= None /\ tes /= None THEN Some(istc[1] - tes[1])
             ELSE None

(* slip: any count DART gives is taken *)
is_count_any(shares) == shares /= None

(* lines 150 and 157: shares is not None and shares > 0 *)
is_count(shares) == shares /= None /\ shares[1] > 0

Raised == <<"exception">>

(* lines 154-159, without the try around them *)
krx_lookup(krx) ==
    IF krx.kind = "unavailable" THEN Raised
    ELSE IF krx.kind = "no_row" THEN <<None, "N/A">>
    ELSE LET shares_krx == to_int(krx.Stocks)
         IN  IF is_count(shares_krx) THEN <<shares_krx, "KRX">> ELSE <<None, "N/A">>

(* lines 153 and 161-164: except: pass, then return None, 'N/A' *)
except_pass(result) == IF result = Raised THEN <<None, "N/A">> ELSE result

InitShares ==
    /\ kpc = "call"
    /\ kin \in [dart : DartResponses, krx : KrxListings]
    /\ klog = <<>>
    /\ kout = <<>>
    /\ DashboardOff

(* line 149: the DART lookup *)
FetchDart ==
    /\ kpc = "call"
    /\ klog' = <<fetch_dart_distb_shares(kin.dart)>>
    /\ kpc' = "dart"
    /\ UNCHANGED <<kin, kout, bridge_vars, report_vars>>

(* lines 150-151 *)
ReturnDart ==
    /\ kpc = "dart"
    /\ is_count(klog[1])
    /\ kout' = <<klog[1], "DART">>
    /\ kpc' = "done"
    /\ UNCHANGED <<kin, klog, bridge_vars, report_vars>>

(* lines 153-164 *)
FallbackKrx ==
    /\ kpc = "dart"
    /\ ~is_count(klog[1])
    /\ kout' = except_pass(krx_lookup(kin.krx))
    /\ kpc' = "done"
    /\ UNCHANGED <<kin, klog, bridge_vars, report_vars>>

NextShares == FetchDart \/ ReturnDart \/ FallbackKrx

SpecShares == InitShares /\ [][NextShares]_vars

(***************************************************************************)
(* The Korean GPCM tool: balance-sheet tagging, market cap and EV.         *)
(* Account names are strings; a Korean syllable is written in romanised    *)
(* form with an initial capital (JeonHwanSaChae = convertible bond).       *)
(***************************************************************************)
(* kw in s *)
Contains(s, kw) ==
    \E j \in 1..(Len(s) - Len(kw) + 1) : SubSeq(s, j, j + Len(kw) - 1) = kw

(* the characters of a string *)
Chars(s) == [j \in 1..Len(s) |-> SubSeq(s, j, j)]

UpperLetters == "ABCDEFGHIJKLMNOPQRSTUVWXYZ"

LowerLetters == "abcdefghijklmnopqrstuvwxyz"

(* one character of s.lower() or s.upper() *)
fold_char(c, from, to) ==
    IF Contains(from, c)
      THEN LET k == CHOOSE j \in 1..Len(from) : SubSeq(from, j, j) = c
           IN  SubSeq(to, k, k)
      ELSE c

RECURSIVE fold_case(_, _, _)
fold_case(s, from, to) ==
    IF s = "" THEN ""
    ELSE fold_char(SubSeq(s, 1, 1), from, to) \o fold_case(SubSeq(s, 2, Len(s)), from, to)

str_lower(s) == fold_case(s, UpperLetters, LowerLetters)

str_upper(s) == fold_case(s, LowerLetters, UpperLetters)

(* kw.replace(" ", "") and re.sub(r"\s+", "", s) *)
RECURSIVE no_spaces(_)
no_spaces(s) ==
    IF s = "" THEN ""
    ELSE IF SubSeq(s, 1, 1) = " " THEN no_spaces(SubSeq(s, 2, Len(s)))
    ELSE SubSeq(s, 1, 1) \o no_spaces(SubSeq(s, 2, Len(s)))

(* s.strip() of a string *)
RECURSIVE str_strip(_)
str_strip(s) ==
    IF s = "" THEN ""
    ELSE IF SubSeq(s, 1, 1) = " " THEN str_strip(SubSeq(s, 2, Len(s)))
    ELSE IF SubSeq(s, Len(s), Len(s)) = " " THEN str_strip(SubSeq(s, 1, Len(s) - 1))
    ELSE s

(* lines 189-191 *)
norm(s) == str_strip(no_spaces(s))

(* \w of the regular expressions: letters, digits and the underscore *)
IsWordChar(c) == Contains(UpperLetters \o LowerLetters \o "0123456789_", c)

(* re.search(r'\bkw\b', s) *)
word_search(s, kw) ==
    \E j \in 1..(Len(s) - Len(kw) + 1) :
        /\ SubSeq(s, j, j + Len(kw) - 1) = kw
        /\ (j = 1 \/ ~IsWordChar(SubSeq(s, j - 1, j - 1)))
        /\ (j + Len(kw) > Len(s) \/ ~IsWordChar(SubSeq(s, j + Len(kw), j + Len(kw))))

(* lines 167-177 *)
IBD_AID_ALWAYS ==
    { "ifrs-full_CurrentBorrowingsAndCurrentPortionOfNoncurrentBorrowings",
      "ifrs-full_LongtermBorrowings",
      "ifrs-full_CurrentLeaseLiabilities",
      "ifrs-full_CurrentPortionOfLongtermBorrowings",
      "ifrs-full_ShorttermBorrowings",
      "ifrs-full_NoncurrentLeaseLiabilities",
      "dart_CurrentPortionOfBonds",
      "ifrs-full_BondsIssued",
      "ifrs-full_Borrowings" }

(* line 178: (Borrowings|Bonds|LeaseLiabilit), re.IGNORECASE *)
IBD_AID_PATTERN(aid) ==
    \E w \in {"borrowings", "bonds", "leaseliabilit"} : Contains(str_lower(aid), w)

(* line 179 *)
MEZZ_KW_KR ==
    { "JeonHwanSaChae", "GyoHwanSaChae", "SinJuInSuGwonBuSaChae", "BW", "CB", "EB",
      "JeonHwan", "SangHwan", "SinJuInSu", "GyoHwan" }

(* line 180 *)
MEZZ_KW_EN ==
    { "convertible", "exchangeable", "bond with warrant", "bonds with warrants", "warrant" }

(* line 181 *)
IBD_KW_NAME ==
    { "ChaIpGeum", "SaChae", "RiSeuBuChae", "Borrowings", "Bond", "Bonds",
      "LeaseLiabilit", "Lease Liability" }

(* lines 182-187 *)
IBD_EXCLUDE ==
    { "MaeIpChaeMu", "MiJiGeup", "ChungDang", "SeonSu", "YeSu", "BoJeungGeum",
      "JaSan", "DaeYeoGeum", "MiSu", "MaeChulChaeGwon", "MiSuGeum", "MiSuSuIk",
      "SeonGeup", "SeonGeupGeum", "SeonGeupBiYong", "YeChiGeum",
      "RiSeuChaeGwon", "DaeYeo", "DaeChulGeum(JaSan)" }

(* line 228 *)
noa_keywords ==
    { "GwanGyeGiEop", "JiBunBeop", "GongDongGiEop", "JongSokGiEop",
      "GeumYungJaSan", "GeumYungSangPum" }

(* line 229 *)
noa_exclude ==
    { "DanGi", "HyeonGeum", "MaeChul", "BoJeungGeum", "MiSu", "DaeYeoGeum",
      "YeChiGeum", "BuChae", "ChungDang", "SonSil", "RiSeuChaeGwon" }

CashIds ==
    { "ifrs-full_CashAndCashEquivalents",
      "ifrs-full_ShorttermDepositsNotClassifiedAsCashEquivalents" }

(* lines 193-233: the tag of a balance-sheet row, "" for None *)
match_bs_ev_component(account_nm, account_id) ==
    LET acct == str_strip(account_nm)
        aid == str_strip(account_id)
        acct_n == norm(acct)
        acct_u == str_upper(acct_n)
        acct_l == str_lower(acct_n)
        mezz_hit == \/ \E kw \in MEZZ_KW_KR : Contains(acct_n, no_spaces(kw))
                    \/ \E kw \in MEZZ_KW_EN : Contains(acct_l, kw)
                    \/ \E kw \in {"CB", "EB", "BW"} : word_search(acct_u, kw)
        excluded == \E ex \in IBD_EXCLUDE : Contains(acct_n, no_spaces(ex))
    IN  IF aid \in CashIds THEN "Cash"
        ELSE IF aid = "ifrs-full_Equity" THEN "Equity_Total"
        ELSE IF aid = "ifrs-full_EquityAttributableToOwnersOfParent" THEN "Equity_P"
        ELSE IF aid = "dart_ElementsOfOtherStockholdersEquity" THEN ""
        ELSE IF ~Contains(acct_n, "USeonJu") /\ mezz_hit THEN "IBD(Option)"
        ELSE IF ~excluded /\ (aid \in IBD_AID_ALWAYS \/ (aid /= "" /\ IBD_AID_PATTERN(aid)))
          THEN "IBD"
        ELSE IF (\E k \in IBD_KW_NAME : Contains(acct_n, no_spaces(k))) /\ ~excluded
          THEN "IBD"
        ELSE IF /\ (Contains(acct, "BiJiBaeJiBun") \/ Contains(acct, "SoSuJuJuJiBun"))
                /\ ~Contains(acct, "GwiSok")
          THEN "NCI"
        ELSE IF /\ \E kw \in noa_keywords : Contains(acct, kw)
                /\ ~\E ex \in noa_exclude : Contains(acct, ex)
                /\ aid \notin CashIds
          THEN "NOA(Option)"
        ELSE ""

(* line 559: pd.to_numeric(str(x).replace(',', ''), errors='coerce') of a   *)
(* cell that holds whole won: an optional sign and digits; any other text  *)
(* of the cells ('', '-') is NaN, written None                             *)
to_numeric(x) ==
    LET t == without_commas(Chars(x))
        signed == t /= <<>> /\ Head(t) \in {"-", "+"}
        body == IF signed THEN Tail(t) ELSE t
    IN  IF AllDigits(body)
          THEN Some(IF Head(t) = "-" THEN 0 - digits_value(body) ELSE digits_value(body))
          ELSE None

(* round(x, 1) of a non-negative amount, ties to the even tenth *)
round_1(x) ==
    LET q == (10 * x[1]) \div x[2]
        twice_rest == 2 * ((10 * x[1]) % x[2])
    IN  IF twice_rest > x[2] \/ (twice_rest = x[2] /\ q % 2 = 1)
          THEN Norm(q + 1, 10)
          ELSE Norm(q, 10)

(* lines 529-531 *)
mkt_100m_of(price, shares) ==
    IF price /= None /\ shares /= None /\ shares[1] > 0
      THEN round_1(Norm(price[1] * shares[1], Unit))
      ELSE Zero

(* rows of finstate_all: statement name, account name, account id, amount  *)
BSRow(sj, nm, id, amount) ==
    [sj_nm |-> sj, account_nm |-> nm, account_id |-> id, thstrm_amount |-> amount]

Cash_Row == BSRow("JaeMuSangTaePyo", "HyeonGeumMitHyeonGeumSeongJaSan",
                  "ifrs-full_CashAndCashEquivalents", "500,000,000")

Borrowings_Row == BSRow("JaeMuSangTaePyo", " DanGiChaIpGeum", "ifrs-full_ShorttermBorrowings",
                        "1,000,000,000")

Bonds_Row == BSRow("YeonGyeolJaeJeongSangTae", "SaChae", "-", "250000000")

Convertible_Row == BSRow("JaeMuSangTaePyo", "JeonHwanSaChae", "ifrs-full_BondsIssued",
                         "750,000,000")

Warrant_Row == BSRow("JaeMuSangTaePyo", "Bonds with Warrants", "-", "50000000")

NCI_Row == BSRow("JaeMuSangTaePyo", "BiJiBaeJiBun", "ifrs-full_NoncontrollingInterests",
                 "100,000,000")

Associates_Row == BSRow("JaeMuSangTaePyo", "GwanGyeGiEopTuJa",
                        "ifrs-full_InvestmentsInAssociates", "1,500,000,000")

Equity_Row == BSRow("JaeMuSangTaePyo", "JaBonChongGye", "ifrs-full_Equity", "2,000,000,000")

Inventories_Row == BSRow("JaeMuSangTaePyo", "JaeGoJaSan", "ifrs-full_Inventories", "300,000,000")

Zero_Row == BSRow("JaeMuSangTaePyo", "JangGiChaIpGeum", "ifrs-full_LongtermBorrowings", "0")

Blank_Row == BSRow("JaeMuSangTaePyo", "RiSeuBuChae", "ifrs-full_NoncurrentLeaseLiabilities", "-")

Income_Row == BSRow("PoGwalSonIkGyeSanSeo", "GeumYungBiYong", "ifrs-full_FinanceCosts",
                    "400,000,000")

(* lines 546-556: what the CFS then OFS requests leave in df_all: None, or *)
(* the rows that came back                                                 *)
BSFrames ==
    { None,
      Some(<<Cash_Row, Borrowings_Row, Convertible_Row, NCI_Row, Associates_Row, Equity_Row>>),
      Some(<<Bonds_Row, Warrant_Row, Zero_Row, Blank_Row, Income_Row, Inventories_Row>>),
      Some(<<Convertible_Row, Associates_Row>>) }

(* line 526: get_stock_price gives a close or None *)
Prices == { None, Some(12345) }

(* line 527: get_outstanding_shares gives a positive count or None *)
ShareCounts == { None, Some(20000) }

(* line 581: the income statement of a period came back or did not *)
EVStatements ==
    { None, Some([Revenue |-> Some(500000000), EBIT |-> None, NI |-> Some(50000000)]) }

(* line 557: sj_nm contains a balance-sheet title *)
is_balance_sheet(row) ==
    Contains(row.sj_nm, "SangTaePyo") \/ Contains(row.sj_nm, "JaeJeongSangTae")

(* slip: an optional tag is accumulated under its plain name *)
accumulate_with_options(m, ev_comp, val_100m) ==
    IF ev_comp = "Cash" THEN [m EXCEPT !.Cash = RAdd(@, val_100m)]
    ELSE IF ev_comp \in {"IBD", "IBD(Option)"} THEN [m EXCEPT !.IBD = RAdd(@, val_100m)]
    ELSE IF ev_comp = "NCI" THEN [m EXCEPT !.NCI = RAdd(@, val_100m)]
    ELSE IF ev_comp \in {"NOA", "NOA(Option)"} THEN [m EXCEPT !.NOA = RAdd(@, val_100m)]
    ELSE m

(* lines 569-572 *)
accumulate(m, ev_comp, val_100m) ==
    IF ev_comp = "Cash" THEN [m EXCEPT !.Cash = RAdd(@, val_100m)]
    ELSE IF ev_comp = "IBD" THEN [m EXCEPT !.IBD = RAdd(@, val_100m)]
    ELSE IF ev_comp = "NCI" THEN [m EXCEPT !.NCI = RAdd(@, val_100m)]
    ELSE IF ev_comp = "NOA" THEN [m EXCEPT !.NOA = RAdd(@, val_100m)]
    ELSE m

(* lines 558-578: the tagging loop over the rows of df_bs; acc holds       *)
(* temp_metrics and the rows appended to raw_bs_rows                       *)
RECURSIVE tag_rows(_, _, _)
tag_rows(rows, ticker, acc) ==
    IF rows = <<>> THEN acc
    ELSE LET row == Head(rows)
             amt == to_numeric(row.thstrm_amount)
         IN  IF ~is_balance_sheet(row) \/ amt = None \/ amt = Some(0)
               THEN tag_rows(Tail(rows), ticker, acc)
               ELSE LET ev_comp == match_bs_ev_component(row.account_nm, row.account_id)
                        val_100m == Norm(amt[1], Unit)
                    IN  tag_rows(Tail(rows), ticker,
                          [temp_metrics |-> accumulate(acc.temp_metrics, ev_comp, val_100m),
                           raw_bs_rows |-> Append(acc.raw_bs_rows,
                              [Ticker |-> ticker, account_nm |-> str_strip(row.account_nm),
                               EV_Component |-> ev_comp, Amount_100M |-> val_100m])])

(* lines 513-517 *)
new_temp_metrics(ticker) ==
    [Ticker |-> ticker, Market_Cap |-> Zero, Cash |-> Zero, IBD |-> Zero,
     NCI |-> Zero, NOA |-> Zero]

(* =SUMIFS(BS_Full!H:H, BS_Full!B:B, B{r}, BS_Full!G:G, tag) *)
RECURSIVE SUMIFS_BS(_, _, _)
SUMIFS_BS(rows, ticker, tag) ==
    IF rows = <<>> THEN Zero
    ELSE LET rest == SUMIFS_BS(Tail(rows), ticker, tag)
         IN  IF Head(rows).Ticker = ticker /\ Head(rows).EV_Component = tag
               THEN RAdd(Head(rows).Amount_100M, rest)
               ELSE rest

(* =SUMIFS(Market_Cap!G:G, Market_Cap!B:B, B{r}) *)
RECURSIVE SUMIFS_Mkt(_, _)
SUMIFS_Mkt(rows, ticker) ==
    IF rows = <<>> THEN Zero
    ELSE LET rest == SUMIFS_Mkt(Tail(rows), ticker)
         IN  IF Head(rows).Ticker = ticker
               THEN RAdd(Head(rows).Market_Cap_100M, rest)
               ELSE rest

(* line 641 and the formula of column 12, line 774 *)
ev_of(mkt, ibd, cash, nci, noa) ==
    RSub(RAdd(RSub(RAdd(mkt, ibd), cash), nci), noa)

(* lines 764-782: the evaluated cells of the row of a ticker in GPCM *)
gpcm_row(ticker, bs_rows, mkt_rows) ==
    LET F == SUMIFS_BS(bs_rows, ticker, "Cash")
        G == SUMIFS_BS(bs_rows, ticker, "IBD")
        H == SUMIFS_BS(bs_rows, ticker, "NOA")
        J == SUMIFS_BS(bs_rows, ticker, "NCI")
        T == SUMIFS_Mkt(mkt_rows, ticker)
    IN  [Ticker |-> ticker, Cash |-> F, IBD |-> G, NOA |-> H,
         Net_Debt |-> RSub(RSub(G, F), H), NCI |-> J,
         Equity |-> SUMIFS_BS(bs_rows, ticker, "Equity_Total"),
         EV |-> ev_of(T, G, F, J, H), Mkt_Cap |-> T]

(* lines 639-642: the preview rows; base_info is the first entry of        *)
(* screen_summary_data with the ticker                                     *)
RECURSIVE ltm_res_of(_, _)
ltm_res_of(tickers, summary) ==
    IF tickers = <<>> THEN <<>>
    ELSE LET ticker == Head(tickers)
             found == { j \in 1..Len(summary) : summary[j].Ticker = ticker }
             rest == ltm_res_of(Tail(tickers), summary)
         IN  IF found = {} THEN rest
             ELSE LET base_info == summary[CHOOSE j \in found : \A k \in found : j <= k]
                  IN  <<[Ticker |-> ticker, Market_Cap |-> base_info.Market_Cap,
                         EV |-> ev_of(base_info.Market_Cap, base_info.IBD, base_info.Cash,
                                      base_info.NCI, base_info.NOA)]>> \o rest

(* lines 405-422: the sidebar of a run *)
InitEV ==
    /\ kpc = "sidebar"
    /\ kin \in [sel_year : {2025}, sel_qtr : {"2Q", "4Q"}, tickers : TickerLists]
    /\ klog = <<>>
    /\ kout = <<>>
    /\ DashboardOff

(* lines 484-494: the run button *)
RunEV ==
    /\ kpc = "sidebar"
    /\ klog' = [required_periods |->
                    get_ltm_required_periods(base_period_str_of(kin.sel_year, kin.sel_qtr)),
                raw_bs_rows |-> <<>>, raw_pl_rows |-> <<>>, all_mkt |-> <<>>,
                ticker_to_name |-> {}, screen_summary_data |-> <<>>,
                temp_metrics |-> new_temp_metrics(""), failed |-> <<>>, t |-> 1, p |-> 1]
    /\ kpc' = "ticker"
    /\ UNCHANGED <<kin, kout, bridge_vars, report_vars>>

(* lines 500-516: resolve_company_info of the next ticker; a ticker without *)
(* a DART code is reported and skipped                                      *)
ResolveTicker ==
    /\ kpc = "ticker"
    /\ LET ticker == kin.tickers[klog.t]
           last_t == klog.t = Len(kin.tickers)
       IN  \E corp_code \in {None, Some("00126380")} :
             IF corp_code = None
               THEN /\ klog' = [klog EXCEPT !.failed = Append(@, ticker), !.t = @ + 1]
                    /\ kpc' = IF last_t THEN "collected" ELSE "ticker"
               ELSE /\ klog' = [klog EXCEPT !.ticker_to_name = @ \cup {ticker},
                                           !.temp_metrics = new_temp_metrics(ticker),
                                           !.p = 1]
                    /\ kpc' = "period"
    /\ UNCHANGED <<kin, kout, bridge_vars, report_vars>>

(* lines 518-611: one period of the ticker: market cap and balance sheet at *)
(* the base period, then the income statement; after the last period the    *)
(* metrics of the ticker are appended to screen_summary_data                *)
CollectPeriod ==
    /\ kpc = "period"
    /\ LET ticker == kin.tickers[klog.t]
           role == klog.required_periods[klog.p][3]
           base == role \in {"current_cum", "annual"}
           last_p == klog.p = Len(klog.required_periods)
           last_t == klog.t = Len(kin.tickers)
       IN  \E price \in Prices, shares \in ShareCounts, df_all \in BSFrames, st \in EVStatements :
           \E mkt \in { mkt_100m_of(price, shares) } :
           \E m1 \in { IF base THEN [klog.temp_metrics EXCEPT !.Market_Cap = mkt]
                               ELSE klog.temp_metrics } :
           \E acc \in { IF base /\ df_all /= None
                          THEN tag_rows(df_all[1], ticker,
                                        [temp_metrics |-> m1, raw_bs_rows |-> klog.raw_bs_rows])
                          ELSE [temp_metrics |-> m1, raw_bs_rows |-> klog.raw_bs_rows] } :
             /\ base \/ (price = None /\ shares = None /\ df_all = None)
             /\ klog' = [klog EXCEPT
                   !.all_mkt = IF base
                                 THEN Append(@, [Ticker |-> ticker, Market_Cap_100M |-> mkt])
                                 ELSE @,
                   !.temp_metrics = acc.temp_metrics,
                   !.raw_bs_rows = acc.raw_bs_rows,
                   !.raw_pl_rows = @ \o pl_rows_of(ticker, role, st, ltm_keys),
                   !.screen_summary_data = IF last_p THEN Append(@, acc.temp_metrics) ELSE @,
                   !.p = IF last_p THEN 1 ELSE @ + 1,
                   !.t = IF last_p THEN @ + 1 ELSE @]
             /\ kpc' = IF ~last_p THEN "period"
                       ELSE IF last_t THEN "collected" ELSE "ticker"
    /\ UNCHANGED <<kin, kout, bridge_vars, report_vars>>

(* lines 620-653 and 764-782: the preview table and the rows of GPCM *)
ShowEV ==
    /\ kpc = "collected"
    /\ kout' = [preview |-> IF klog.raw_pl_rows /= <<>>
                              THEN ltm_res_of(kin.tickers, klog.screen_summary_data)
                              ELSE <<>>,
                GPCM |-> [t \in 1..Len(kin.tickers) |->
                            gpcm_row(kin.tickers[t], klog.raw_bs_rows, klog.all_mkt)]]
    /\ kpc' = "done"
    /\ UNCHANGED <<kin, klog, bridge_vars, report_vars>>

NextEV == RunEV \/ ResolveTicker \/ CollectPeriod \/ ShowEV

SpecEV == InitEV /\ [][NextEV]_vars

(***************************************************************************)
(* The global GPCM tool (GPCM.py): tax rate, ticker loop and target beta.  *)
(***************************************************************************)
(* a <= b of two finite amounts *)
RLeq(a, b) == a[1] * b[2] <= b[1] * a[2]

(* pd.isna(x): None and NaN *)
isna(x) == x = None \/ ~IsFinite(x)

(* slip: the second bracket ends at 2,000 *)
get_korean_marginal_tax_rate_low_bracket(pretax_income_millions) ==
    IF isna(pretax_income_millions) \/ pretax_income_millions = Zero THEN Norm(231, 1000)
    ELSE IF RLeq(pretax_income_millions, Rat(200)) THEN Norm(99, 1000)
    ELSE IF RLeq(pretax_income_millions, Rat(2000)) THEN Norm(209, 1000)
    ELSE IF RLeq(pretax_income_millions, Rat(300000)) THEN Norm(231, 1000)
    ELSE Norm(264, 1000)

(* lines 253-273 *)
get_korean_marginal_tax_rate(pretax_income_millions) ==
    IF isna(pretax_income_millions) \/ pretax_income_millions = Zero THEN Norm(231, 1000)
    ELSE IF RLeq(pretax_income_millions, Rat(200)) THEN Norm(99, 1000)
    ELSE IF RLeq(pretax_income_millions, Rat(20000)) THEN Norm(209, 1000)
    ELSE IF RLeq(pretax_income_millions, Rat(300000)) THEN Norm(231, 1000)
    ELSE Norm(264, 1000)

(* incomes in millions of won around every bracket edge, whole and half,   *)
(* and the two missing values                                              *)
TaxEdges == {0, 200, 20000, 300000}

EdgeSpan == 5

TaxIncomes ==
    { Norm(2 * (e + k) + h, 2) : e \in TaxEdges, k \in (0 - EdgeSpan)..EdgeSpan, h \in {0, 1} }
      \cup {None, NaN}

InitTax ==
    /\ kpc = "call"
    /\ kin \in TaxIncomes
    /\ klog = <<>>
    /\ kout = <<>>
    /\ DashboardOff

(* line 732: the call and its result *)
TaxRate ==
    /\ kpc = "call"
    /\ kout' = <<get_korean_marginal_tax_rate(kin)>>
    /\ kpc' = "done"
    /\ UNCHANGED <<kin, klog, bridge_vars, report_vars>>

(* the next peer *)
NextIncome ==
    /\ kpc = "done"
    /\ \E x \in TaxIncomes :
          /\ x /= kin
          /\ kin' = x
    /\ klog' = <<kin, kout[1]>>
    /\ kout' = <<>>
    /\ kpc' = "call"
    /\ UNCHANGED <<bridge_vars, report_vars>>

NextTax == TaxRate \/ NextIncome

SpecTax == InitTax /\ [][NextTax]_vars

(* s.endswith(suffix) *)
EndsWith(s, suffix) ==
    Len(s) >= Len(suffix) /\ SubSeq(s, Len(s) - Len(suffix) + 1, Len(s)) = suffix

(* lines 275-352, for the suffixes of the tickers entered: Korea, Tokyo,   *)
(* and the default for a ticker without suffix                             *)
get_country_from_ticker(ticker) ==
    LET ticker_upper == str_upper(ticker)
    IN  IF EndsWith(ticker_upper, ".KS") \/ EndsWith(ticker_upper, ".KQ") THEN "KR"
        ELSE IF EndsWith(ticker_upper, ".T") THEN "JP"
        ELSE "US"

(* lines 157-252: the table of get_corporate_tax_rates_from_wikipedia, as  *)
(* preset or with a crawled rate                                           *)
WikiTables ==
    { [c \in {"KR", "JP", "US"} |->
          CASE c = "KR" -> Norm(231, 1000) [] c = "JP" -> Norm(304, 1000) [] c = "US" -> us]
      : us \in {Norm(21, 100), Norm(257, 1000)} }

(* tax_rates_wiki.get(country_code, 0.25) *)
wiki_rate(tax_rates_wiki, country_code) ==
    IF country_code \in DOMAIN tax_rates_wiki THEN tax_rates_wiki[country_code] ELSE Norm(1, 4)

(* line 725: float(val) / 1e6 *)
Million == 1000000

(* an amount of a statement in currency units, as whole millions and rest *)
Amount(m, r) == [millions |-> m, rest |-> r]

in_millions(val) == RAdd(Rat(val.millions), Norm(val.rest, Million))

(* lines 720-727: the sum of the values that are not NaN; None when there  *)
(* is none (Pretax_Income keeps its 0)                                     *)
RECURSIVE pretax_sum(_)
pretax_sum(vals) ==
    IF vals = <<>> THEN None
    ELSE LET rest == pretax_sum(Tail(vals))
         IN  IF Head(vals) = None THEN rest
             ELSE IF rest = None THEN Some(in_millions(Head(vals)[1]))
             ELSE Some(RAdd(in_millions(Head(vals)[1]), rest[1]))

(* lines 400-414, for the accounts of the balance sheets below *)
BS_HIGHLIGHT_MAP(acct_name) ==
    CASE acct_name = "Cash And Cash Equivalents" -> "Cash"
      [] acct_name = "Current Debt And Capital Lease Obligation" -> "IBD"
      [] acct_name = "Long Term Debt And Capital Lease Obligation" -> "IBD"
      [] acct_name = "Minority Interest" -> "NCI"
      [] acct_name = "Stockholders Equity" -> "Equity"
      [] acct_name = "Long Term Equity Investment" -> "NOA(Option)"
      [] OTHER -> ""

(* lines 415-418 *)
BS_SUBTOTAL_EXCLUDE ==
    { "Cash Cash Equivalents And Short Term Investments", "Cash And Short Term Investments",
      "Total Debt", "Total Capitalization", "Total Equity Gross Minority Interest" }

(* lines 448-459: the record of a peer before anything is read *)
new_gpcm(ticker) ==
    [Ticker |-> ticker, Cash |-> Zero, IBD |-> Zero, NCI |-> Zero, Equity |-> Zero,
     NOA_Option |-> Zero, Market_Cap_M |-> Zero, Pretax_Income |-> Zero,
     Tax_Rate |-> Norm(22, 100), Debt_Ratio |-> Zero,
     Unlevered_Beta_5Y |-> None, Unlevered_Beta_2Y |-> None]

(* lines 475-489: gpcm[ev_tag] += val_f/1e6 over the rows of the latest    *)
(* balance sheet                                                           *)
RECURSIVE add_bs(_, _)
add_bs(gpcm, rows) ==
    IF rows = <<>> THEN gpcm
    ELSE LET acct_name == Head(rows)[1]
             val == Head(rows)[2]
             ev_tag == IF acct_name \in BS_SUBTOTAL_EXCLUDE THEN ""
                       ELSE BS_HIGHLIGHT_MAP(acct_name)
             amt == IF val = None THEN Zero ELSE in_millions(val[1])
             next == IF val = None THEN gpcm
                     ELSE CASE ev_tag = "Cash" -> [gpcm EXCEPT !.Cash = RAdd(@, amt)]
                            [] ev_tag = "IBD" -> [gpcm EXCEPT !.IBD = RAdd(@, amt)]
                            [] ev_tag = "NCI" -> [gpcm EXCEPT !.NCI = RAdd(@, amt)]
                            [] ev_tag = "Equity" -> [gpcm EXCEPT !.Equity = RAdd(@, amt)]
                            [] ev_tag = "NOA(Option)" -> [gpcm EXCEPT !.NOA_Option = RAdd(@, amt)]
                            [] OTHER -> gpcm
         IN  add_bs(next, Tail(rows))

(* lines 739-743 *)
debt_ratio_of(gpcm) ==
    LET total_value == RAdd(RAdd(gpcm.IBD, gpcm.Market_Cap_M), gpcm.NCI)
    IN  IF RGtZero(total_value) THEN RDiv(gpcm.IBD, total_value) ELSE Zero

(* lines 730-735 *)
tax_rate_of(ticker, pretax_income, tax_rates_wiki) ==
    LET country_code == get_country_from_ticker(ticker)
    IN  IF country_code = "KR" THEN get_korean_marginal_tax_rate(pretax_income)
        ELSE wiki_rate(tax_rates_wiki, country_code)

(* what yfinance gives for a ticker: the rows of the latest balance sheet, *)
(* the market cap in millions, the Pretax Income row of the statement (or  *)
(* None), and the call that raises, if any                                 *)
Peer(bs, cap, pretax, raises) ==
    [bs |-> bs, Market_Cap_M |-> cap, pretax |-> pretax, raises |-> raises]

LeveredSheet ==
    << <<"Cash And Cash Equivalents", Some(Amount(120, 0))>>,
       <<"Total Debt", Some(Amount(300, 0))>>,
       <<"Current Debt And Capital Lease Obligation", Some(Amount(100, 500000))>>,
       <<"Long Term Debt And Capital Lease Obligation", Some(Amount(199, 500000))>>,
       <<"Minority Interest", None>>,
       <<"Long Term Equity Investment", Some(Amount(40, 0))>> >>

PeerOutcomes ==
    { Peer(<<>>, Zero, None, "info"),
      Peer(LeveredSheet, Rat(700), None, "quarterly_income_stmt"),
      Peer(LeveredSheet, Rat(700),
           Some(<<Some(Amount(150, 0)), Some(Amount(50, 500000)), None, Some(Amount(0, 0))>>),
           "none"),
      Peer(<<>>, Zero, Some(<<None>>), "none"),
      Peer(<<>>, Rat(50), Some(<<Some(Amount(300000, 500000))>>), "none") }

(* the ticker text area of line 1827 *)
PeerLists ==
    { <<"005930.KS">>, <<"AAPL", "005930.ks">>, <<"AAPL", "7203.T", "AAPL">>,
      <<"000660.KS", "AAPL", "035420.KQ">> }

(* dict assignment gpcm_data[ticker] = gpcm *)
dict_set(dict, key, value) ==
    [k \in DOMAIN dict \cup {key} |-> IF k = key THEN value ELSE dict[k]]

RECURSIVE rat_sum(_)
rat_sum(S) ==
    IF S = <<>> THEN Zero ELSE RAdd(Head(S), rat_sum(Tail(S)))

(* np.mean of a non-empty list *)
mean(S) == RDiv(rat_sum(S), Rat(Len(S)))

(* gpcm_data.values() *)
dict_values(dict) == [j \in 1..Cardinality(DOMAIN dict) |-> dict[SetToSeq(DOMAIN dict)[j]]]

(* lines 757-762 *)
avg_debt_ratio_of(gpcm_data) ==
    LET all == dict_values(gpcm_data)
        debt_ratios == [j \in 1..Len(SelectSeq(all, LAMBDA g : RGtZero(g.Debt_Ratio))) |->
                           SelectSeq(all, LAMBDA g : RGtZero(g.Debt_Ratio))[j].Debt_Ratio]
    IN  IF debt_ratios /= <<>> THEN mean(debt_ratios) ELSE Norm(30, 100)

(* line 767 *)
beta_field_of(gpcm, beta_type) ==
    IF beta_type = "5Y" THEN gpcm.Unlevered_Beta_5Y ELSE gpcm.Unlevered_Beta_2Y

(* slip: the default beta is 0 *)
avg_unlevered_beta_zero_default(gpcm_data, beta_type) ==
    LET all == dict_values(gpcm_data)
        kept == SelectSeq(all, LAMBDA g : beta_field_of(g, beta_type) /= None
                                          /\ RGtZero(beta_field_of(g, beta_type)[1]))
        unlevered_betas == [j \in 1..Len(kept) |-> beta_field_of(kept[j], beta_type)[1]]
    IN  IF unlevered_betas /= <<>> THEN mean(unlevered_betas) ELSE Zero

(* lines 765-779 *)
avg_unlevered_beta_of(gpcm_data, beta_type) ==
    LET all == dict_values(gpcm_data)
        kept == SelectSeq(all, LAMBDA g : beta_field_of(g, beta_type) /= None
                                          /\ RGtZero(beta_field_of(g, beta_type)[1]))
        unlevered_betas == [j \in 1..Len(kept) |-> beta_field_of(kept[j], beta_type)[1]]
    IN  IF unlevered_betas /= <<>> THEN mean(unlevered_betas) ELSE Rat(1)

(* lines 1811-1827: the inputs of a run *)
InitPeers ==
    /\ kpc = "peers"
    /\ kin \in [tickers_list : PeerLists, beta_type : {"5Y", "2Y"}, tax_rates_wiki : WikiTables]
    /\ klog = [idx |-> 1, gpcm_data |-> [k \in {} |-> 0], market_rows |-> <<>>, errors |-> <<>>]
    /\ kout = <<>>
    /\ DashboardOff

(* slip: the first failure ends the loop *)
after_error_abort(idx, n) == "wacc"

(* lines 747-749: except ...: st.error(...); continue *)
after_error(idx, n) == IF idx = n THEN "wacc" ELSE "peers"

(* lines 436-748: one pass of the loop over tickers_list *)
ProcessTicker ==
    /\ kpc = "peers"
    /\ LET ticker == kin.tickers_list[klog.idx]
           n == Len(kin.tickers_list)
       IN  \E peer \in PeerOutcomes :
           \E g1 \in { [add_bs(new_gpcm(ticker), peer.bs) EXCEPT
                           !.Market_Cap_M = peer.Market_Cap_M] } :
           \E pretax \in { IF peer.pretax = None THEN None ELSE pretax_sum(peer.pretax[1]) } :
           \E g2 \in { IF pretax = None THEN g1 ELSE [g1 EXCEPT !.Pretax_Income = pretax[1]] } :
           \E g3 \in { [g2 EXCEPT !.Tax_Rate = tax_rate_of(ticker, g2.Pretax_Income,
                                                           kin.tax_rates_wiki)] } :
             IF peer.raises = "info"
               THEN /\ klog' = [klog EXCEPT !.errors = Append(@, klog.idx), !.idx = @ + 1]
                    /\ kpc' = after_error(klog.idx, n)
             ELSE IF peer.raises = "quarterly_income_stmt"
               THEN /\ klog' = [klog EXCEPT
                                  !.market_rows = Append(@, [Ticker |-> ticker,
                                                             Market_Cap_M |-> g1.Market_Cap_M]),
                                  !.errors = Append(@, klog.idx), !.idx = @ + 1]
                    /\ kpc' = after_error(klog.idx, n)
             ELSE /\ klog' = [klog EXCEPT
                                !.market_rows = Append(@, [Ticker |-> ticker,
                                                           Market_Cap_M |-> g1.Market_Cap_M]),
                                !.gpcm_data = dict_set(@, ticker,
                                                  [g3 EXCEPT !.Debt_Ratio = debt_ratio_of(g3)]),
                                !.idx = @ + 1]
                  /\ kpc' = IF klog.idx = n THEN "wacc" ELSE "peers"
    /\ UNCHANGED <<kin, kout, bridge_vars, report_vars>>

(* lines 751-825: the target figures and the return *)
TargetWACC ==
    /\ kpc = "wacc"
    /\ kout' = [gpcm_data |-> klog.gpcm_data,
                target_wacc_data |->
                   [Avg_Unlevered_Beta |-> avg_unlevered_beta_of(klog.gpcm_data, kin.beta_type),
                    Avg_Debt_Ratio |-> avg_debt_ratio_of(klog.gpcm_data)]]
    /\ kpc' = "returned"
    /\ UNCHANGED <<kin, klog, bridge_vars, report_vars>>

NextPeers == ProcessTicker \/ TargetWACC

SpecPeers == InitPeers /\ [][NextPeers]_vars

(* both tools, each from its own inputs *)
SpecSkip == (InitPeers \/ InitEV) /\ [][NextPeers \/ NextEV]_vars

(***************************************************************************)
(* safe_finstate and safe_finstate_all, attempt by attempt.                *)
(***************************************************************************)
(* what one call of dart.finstate or dart.finstate_all does: it returns a  *)
(* frame with rows, an empty frame or None, or raises                      *)
ProviderOutcomes(fn, fs_div) ==
    { [raised |-> FALSE, df |-> Some([fn |-> fn, fs_div |-> fs_div, rows |-> 3]), err |-> None],
      [raised |-> FALSE, df |-> Some([fn |-> fn, fs_div |-> fs_div, rows |-> 0]), err |-> None],
      [raised |-> FALSE, df |-> None, err |-> None],
      [raised |-> TRUE, df |-> None, err |-> Some("timeout")],
      [raised |-> TRUE, df |-> None, err |-> Some("status 020")] }

(* slip: one attempt more *)
in_range_inclusive(calls, retries) == calls <= retries + 1

(* lines 269 and 284: for _ in range(max_retry + 1) *)
in_range(calls, retries) == calls < retries + 1

InitRetry ==
    /\ kpc = "try"
    /\ kin \in [fn : {"finstate", "finstate_all"}, fs_div : {None, Some("CFS"), Some("OFS")},
                max_retry : 0..max_retry]
    /\ klog = [calls |-> 0, last_err |-> None, outcomes |-> <<>>]
    /\ kout = <<>>
    /\ DashboardOff

(* lines 270-279 and 285-294: one pass of the loop *)
Attempt ==
    /\ kpc = "try"
    /\ in_range(klog.calls, kin.max_retry)
    /\ \E out \in ProviderOutcomes(kin.fn, kin.fs_div) :
          /\ klog' = [calls |-> klog.calls + 1,
                      last_err |-> IF out.raised THEN out.err ELSE klog.last_err,
                      outcomes |-> Append(klog.outcomes, out)]
          /\ IF out.raised
               THEN UNCHANGED <<kout, kpc>>
               ELSE /\ kout' = <<out.df, None>>
                    /\ kpc' = "done"
    /\ UNCHANGED <<kin, bridge_vars, report_vars>>

(* lines 280 and 295: return None, last_err *)
ReturnLastErr ==
    /\ kpc = "try"
    /\ ~in_range(klog.calls, kin.max_retry)
    /\ kout' = <<None, klog.last_err>>
    /\ kpc' = "done"
    /\ UNCHANGED <<kin, klog, bridge_vars, report_vars>>

NextRetry == Attempt \/ ReturnLastErr

SpecRetry == InitRetry /\ [][NextRetry]_vars

(* every call of the provider returns or raises *)
SpecRetryFair == SpecRetry /\ WF_vars(NextRetry)

(***************************************************************************)
(* The income-statement scan of the Korean GPCM tool.                      *)
(***************************************************************************)
(* line 236 *)
PL_REVENUE == { "MaeChulAek", "SuIk(MaeChulAek)", "SuIk(MaeChul)", "YeongEopSuIk" }

(* line 237 *)
PL_EBIT == { "YeongEopIIk", "YeongEopIIk(SonSil)", "YeongEopSonSil", "YeongEopSonIk" }

(* line 238 *)
PL_NI ==
    { "DangGiSunIIk", "DangGiSunIIk(SonSil)", "DangGiSunSonSil",
      "BunGiSunIIk", "BunGiSunIIk(SonSil)", "BunGiSunSonSil",
      "BanGiSunIIk", "BanGiSunIIk(SonSil)", "BanGiSunSonSil",
      "YeonGyeolDangGiSunIIk", "YeonGyeolDangGiSunIIk(SonSil)", "YeonGyeolDangGiSunSonSil" }

(* lines 240-242 *)
norm_pl(s) == no_spaces(str_strip(s))

(* lines 244-249: the key of an account name, "" for None *)
match_pl_core_only(account_nm) ==
    LET a == norm_pl(account_nm)
    IN  IF a \in PL_REVENUE THEN "Revenue"
        ELSE IF a \in PL_EBIT THEN "EBIT"
        ELSE IF a \in PL_NI THEN "NI"
        ELSE ""

(* lines 251-254 *)
parse_amount(x) ==
    LET v == to_numeric(x)
    IN  IF v = None \/ v = Some(0) THEN None ELSE v

(* lines 256-265 *)
pick_pl_value(row, qtr) ==
    LET cols == IF qtr = "4Q" THEN <<row.thstrm_amount, row.thstrm_add_amount>>
                ELSE <<row.thstrm_add_amount, row.thstrm_amount>>
    IN  IF parse_amount(cols[1]) /= None THEN parse_amount(cols[1])
        ELSE parse_amount(cols[2])

PLRow(nm, amount, add_amount) ==
    [account_nm |-> nm, thstrm_amount |-> amount, thstrm_add_amount |-> add_amount]

(* rows of an income statement *)
PLRowTypes ==
    { PLRow("MaeChulAek", "1,000,000,000", ""),
      PLRow("YeongEopSuIk", "500,000,000", "1,500,000,000"),
      PLRow(" YeongEop IIk", "0", "-"),
      PLRow("YeongEopIIk(SonSil)", "-250,000,000", ""),
      PLRow("DangGiSunIIk", "300,000,000", "300,000,000"),
      PLRow("BanGiSunIIk", "0", "150,000,000"),
      PLRow("MaeChulWonGa", "700,000,000", "700,000,000") }

MaxScan == 3

(* a statement with more rows than keys, the keys met more than once *)
FullStatement ==
    << PLRow("MaeChulAek", "", "0"),
       PLRow("BanGiSunIIk", "0", "150,000,000"),
       PLRow("MaeChulAek", "1,000,000,000", ""),
       PLRow("MaeChulWonGa", "700,000,000", "700,000,000"),
       PLRow("YeongEopSuIk", "500,000,000", "1,500,000,000"),
       PLRow("YeongEopIIk(SonSil)", "-250,000,000", ""),
       PLRow("DangGiSunIIk", "300,000,000", "300,000,000"),
       PLRow("YeongEopSonIk", "50,000,000", "50,000,000") >>

PLFrames ==
    UNION { [1..n -> PLRowTypes] : n \in 0..MaxScan } \cup {FullStatement}

(* line 587 *)
wanted == {"Revenue", "EBIT", "NI"}

(* slip: a row without amount takes the key *)
scan_row_key_taken(st, row, qtr) ==
    LET calc_key == match_pl_core_only(row.account_nm)
        val == pick_pl_value(row, qtr)
    IN  IF calc_key = "" \/ calc_key \notin wanted THEN st
        ELSE IF calc_key \in st.picked THEN st
        ELSE IF val = None THEN [st EXCEPT !.picked = @ \cup {calc_key}]
        ELSE [picked |-> st.picked \cup {calc_key},
              rows |-> Append(st.rows, [account_nm |-> str_strip(row.account_nm),
                                        calc_key |-> calc_key,
                                        Amount_100M |-> Norm(val[1], Unit)]),
              stop |-> st.picked \cup {calc_key} = wanted]

(* lines 591-609: the body of the loop over the rows of df_is *)
scan_row(st, row, qtr) ==
    LET calc_key == match_pl_core_only(row.account_nm)
        val == pick_pl_value(row, qtr)
    IN  IF calc_key = "" \/ calc_key \notin wanted THEN st
        ELSE IF calc_key \in st.picked THEN st
        ELSE IF val = None THEN st
        ELSE [picked |-> st.picked \cup {calc_key},
              rows |-> Append(st.rows, [account_nm |-> str_strip(row.account_nm),
                                        calc_key |-> calc_key,
                                        Amount_100M |-> Norm(val[1], Unit)]),
              stop |-> st.picked \cup {calc_key} = wanted]

InitPL ==
    /\ kpc = "scan"
    /\ kin \in [qtr : {"2Q", "4Q"}, df_is : PLFrames]
    /\ klog = [k |-> 0, picked |-> {}, rows |-> <<>>, stop |-> FALSE]
    /\ kout = <<>>
    /\ DashboardOff

(* lines 590-609: the next row of df_is *)
ScanRow ==
    /\ kpc = "scan"
    /\ klog.k < Len(kin.df_is)
    /\ ~klog.stop
    /\ \E st \in { scan_row([picked |-> klog.picked, rows |-> klog.rows, stop |-> FALSE],
                            kin.df_is[klog.k + 1], kin.qtr) } :
          klog' = [k |-> klog.k + 1, picked |-> st.picked, rows |-> st.rows, stop |-> st.stop]
    /\ UNCHANGED <<kin, kout, kpc, bridge_vars, report_vars>>

(* the loop ends: no row is left or break was reached (line 609) *)
EndScan ==
    /\ kpc = "scan"
    /\ klog.k = Len(kin.df_is) \/ klog.stop
    /\ kout' = klog.rows
    /\ kpc' = "done"
    /\ UNCHANGED <<kin, klog, bridge_vars, report_vars>>

NextPL == ScanRow \/ EndScan

SpecPL == InitPL /\ [][NextPL]_vars

(***************************************************************************)
(* Vocabulary of the properties.                                           *)
(***************************************************************************)
HasLocals == loc.y0 /= 0

Count(s, e) == Cardinality({ j \in 1..Len(s) : s[j] = e })

IsPermOf(p, s) ==
    /\ Len(p) = Len(s)
    /\ \A e \in ToSet(s) \cup ToSet(p) : Count(p, e) = Count(s, e)

PermsOf(s) == { p \in [1..Len(s) -> ToSet(s)] : IsPermOf(p, s) }

IsAscending(s) == \A j \in 1..(Len(s) - 1) : s[j] <= s[j + 1]

(* plain sums over the raw rows of a period, without any grouping *)
PlainSum(d, y, col) == SumCol(YearRows(d, y), DOMAIN YearRows(d, y), col)

KeySum(d, y, gcol, k, col) ==
    LET yr == YearRows(d, y)
    IN  SumCol(yr, { r \in DOMAIN yr : r[gcol] = k }, col)

KeysOf(d, y, gcol) == { r[gcol] : r \in DOMAIN YearRows(d, y) }

RatioOrZero(r, q) == IF IsFinite(q) /\ q[1] > 0 THEN RDiv(r, q) ELSE Zero

(* the run of the function agrees with its functional form *)
RunIsFunction ==
    (pc = "done" /\ caller /= "none" /\ (view /= "message" \/ caller = "direct"))
        => ret = calculate_bridge_mix_steps(df, years, group_col)

(***************************************************************************)
(* C1: in every step, volume + price + mix equals end_val - start_val,     *)
(* also when groups or whole periods have zero quantity.                   *)
(***************************************************************************)
C1_Reconciliation ==
    \A j \in 1..Len(all_steps) :
        /\ RAdd(RAdd(all_steps[j].volume, all_steps[j].price), all_steps[j].mix)
              = RSub(all_steps[j].end_val, all_steps[j].start_val)
        /\ (pc = "done" => ret = all_steps)

C1_Witness ==
    /\ pc = "done"
    /\ Len(ret) = 1
    /\ ret[1].mix /= Zero
    /\ ret[1].volume /= Zero
    /\ ret[1].end_val /= ret[1].start_val
    /\ loc.total_q1 = Zero
    /\ loc.total_r1 /= Zero

(***************************************************************************)
(* C2 as stated: with exactly one group in the two compared periods the    *)
(* mix effect is 0 for every revenue and quantity of that group, a zero    *)
(* quantity with non-zero revenue included.                                *)
(***************************************************************************)
C2_SingleGroupMixAlwaysZero ==
    (HasLocals /\ Cardinality(DOMAIN loc.merged) = 1) => loc.mix_effect = Zero

(***************************************************************************)
(* C2 as amended: with exactly one group the mix effect is the end revenue *)
(* when the end quantity is not positive (else 0) minus the start revenue  *)
(* when the start quantity is not positive (else 0); it is 0 whenever the  *)
(* quantity of the group is positive in both periods.                      *)
(***************************************************************************)
C2_SingleGroupMix ==
    (HasLocals /\ Cardinality(DOMAIN loc.merged) = 1) =>
        LET r0 == PlainSum(df, loc.y0, "Revenue")
            q0 == PlainSum(df, loc.y0, "Quantity")
            r1 == PlainSum(df, loc.y1, "Revenue")
            q1 == PlainSum(df, loc.y1, "Quantity")
            left0 == IF q0[1] > 0 THEN Zero ELSE r0
            left1 == IF q1[1] > 0 THEN Zero ELSE r1
        IN  /\ loc.mix_effect = RSub(left1, left0)
            /\ (q0[1] > 0 /\ q1[1] > 0) => loc.mix_effect = Zero

C2_Witness ==
    /\ HasLocals
    /\ Cardinality(DOMAIN loc.merged) = 1
    /\ loc.total_q0[1] > 0
    /\ loc.total_q1[1] > 0
    /\ loc.vol_effect /= Zero
    /\ loc.price_effect /= Zero
    /\ loc.mix_effect = Zero

(***************************************************************************)
(* C3: N >= 2 periods give exactly N-1 steps; step j compares the j-th and *)
(* (j+1)-th period of the ascending sort of the list, in ascending order.  *)
(***************************************************************************)
C3_StepCountAndOrder ==
    (pc = "done" /\ Len(years) >= 2) =>
        /\ Len(ret) = Len(years) - 1
        /\ \E s \in PermsOf(years) : IsAscending(s)
        /\ \A s \in PermsOf(years) : IsAscending(s) =>
              \A j \in 1..Len(ret) :
                 /\ ret[j].start_year = ToString(s[j])
                 /\ ret[j].end_year = ToString(s[j + 1])
                 /\ ret[j].start_val = PlainSum(df, s[j], "Revenue")
                 /\ ret[j].end_val = PlainSum(df, s[j + 1], "Revenue")

C3_Witness ==
    /\ pc = "done"
    /\ years = <<2023, 2021, 2022>>
    /\ Len(ret) = 2
    /\ ret[1].start_val /= ret[1].end_val
    /\ ret[2].start_val /= ret[2].end_val
    /\ ret[1].start_val /= ret[2].end_val

(***************************************************************************)
(* C4: a period list of length 0 or 1 yields the empty sequence, whatever  *)
(* the rows are; the bridge tab and the Excel report then show the         *)
(* "select at least 2 years" message and no bridge.                        *)
(***************************************************************************)
C4_TooFewPeriods ==
    (pc = "done" /\ Len(years) < 2) =>
        /\ ret = <<>>
        /\ all_steps = <<>>
        /\ caller \in {"tab", "excel"} => view = "message"
        /\ view /= "bridge"

C4_Witness ==
    /\ pc = "done"
    /\ caller = "direct"
    /\ Len(years) = 1
    /\ PlainSum(df, years[1], "Revenue") /= Zero
    /\ ret = <<>>

(***************************************************************************)
(* C5: a group present in only one of the two periods counts as revenue 0  *)
(* and quantity 0 in the other; with period0 = {A: 100, 10} and period1 =  *)
(* {A: 110, 10; B: 50, 5} the step has start 100, end 160, volume 50,      *)
(* price 60 and mix -50.                                                   *)
(***************************************************************************)
C5_Scenario ==
    /\ pc = "done"
    /\ group_col = "Product_Group"
    /\ Len(years) = 2
    /\ \E p0, p1 \in YearSet : p0 < p1 /\ ToSet(years) = {p0, p1} /\ df = WorkedExample(p0, p1)

C5_OuterJoinZeroFill ==
    /\ HasLocals => \A k \in DOMAIN loc.merged :
          /\ k \notin KeysOf(df, loc.y0, group_col) =>
                (loc.merged[k].Revenue_0 = Zero /\ loc.merged[k].Quantity_0 = Zero)
          /\ k \notin KeysOf(df, loc.y1, group_col) =>
                (loc.merged[k].Revenue_1 = Zero /\ loc.merged[k].Quantity_1 = Zero)
    /\ HasLocals => DOMAIN loc.merged = KeysOf(df, loc.y0, group_col) \cup KeysOf(df, loc.y1, group_col)
    /\ C5_Scenario =>
          /\ Len(ret) = 1
          /\ ret[1].start_val = Rat(100)
          /\ ret[1].end_val = Rat(160)
          /\ ret[1].volume = Rat(50)
          /\ ret[1].price = Rat(60)
          /\ ret[1].mix = Rat(0 - 50)

C5_Witness == C5_Scenario /\ Len(ret) = 1 /\ caller = "direct"

(***************************************************************************)
(* C6: a group with quantity 0 in a period gets price 0 for that period,   *)
(* a period with total quantity 0 gets baseline average price 0, and no    *)
(* undefined or infinite value enters the volume, price or mix effect.     *)
(***************************************************************************)
C6_ZeroQuantityPriceZero ==
    HasLocals =>
        /\ \A k \in DOMAIN loc.merged :
              /\ loc.merged[k].Quantity_0 = Zero => loc.merged[k].P0 = Zero
              /\ loc.merged[k].Quantity_1 = Zero => loc.merged[k].P1 = Zero
              /\ IsFinite(loc.merged[k].P0)
              /\ IsFinite(loc.merged[k].P1)
              /\ IsFinite(loc.merged[k].Price_Impact)
        /\ loc.total_q0 = Zero => loc.avg_p0 = Zero
        /\ IsFinite(loc.avg_p0)
        /\ IsFinite(loc.vol_effect)
        /\ IsFinite(loc.price_effect)
        /\ IsFinite(loc.mix_effect)
        /\ \A j \in 1..Len(all_steps) :
              /\ IsFinite(all_steps[j].volume)
              /\ IsFinite(all_steps[j].price)
              /\ IsFinite(all_steps[j].mix)

C6_Witness ==
    /\ HasLocals
    /\ loc.total_q0 = Zero
    /\ loc.total_r0 /= Zero
    /\ \E k \in DOMAIN loc.merged :
          /\ loc.merged[k].Quantity_0 = Zero
          /\ loc.merged[k].Revenue_0 /= Zero
          /\ loc.merged[k].Quantity_1[1] > 0

(***************************************************************************)
(* C7: the volume effect of a step is (total end quantity - total start    *)
(* quantity) times the start period's blended average price: total start   *)
(* revenue / total start quantity when that quantity is > 0, else 0.       *)
(***************************************************************************)
C7_VolumeEffect ==
    pc = "done" =>
        \A j \in 1..Len(ret) :
            LET y0 == ys[j]
                y1 == ys[j + 1]
                avg == RatioOrZero(PlainSum(df, y0, "Revenue"), PlainSum(df, y0, "Quantity"))
            IN  ret[j].volume =
                   RMul(RSub(PlainSum(df, y1, "Quantity"), PlainSum(df, y0, "Quantity")), avg)

C7_Witness ==
    /\ pc = "done"
    /\ Len(ret) = 1
    /\ ret[1].volume[1] < 0
    /\ ret[1].volume[2] > 1

(***************************************************************************)
(* C8: the price effect of a step is the sum, over every group of the      *)
(* outer join of the two periods, of (end price - start price) times the   *)
(* group's end quantity, a price being revenue / quantity when the         *)
(* quantity is > 0 and 0 otherwise.                                        *)
(***************************************************************************)
C8_Impact(y0, y1) ==
    [k \in KeysOf(df, y0, group_col) \cup KeysOf(df, y1, group_col) |->
       LET price0 == RatioOrZero(KeySum(df, y0, group_col, k, "Revenue"),
                                 KeySum(df, y0, group_col, k, "Quantity"))
           price1 == RatioOrZero(KeySum(df, y1, group_col, k, "Revenue"),
                                 KeySum(df, y1, group_col, k, "Quantity"))
       IN  [impact |-> RMul(RSub(price1, price0),
                            KeySum(df, y1, group_col, k, "Quantity"))]]

C8_PriceEffect ==
    pc = "done" =>
        \A j \in 1..Len(ret) :
            LET t == C8_Impact(ys[j], ys[j + 1])
            IN  ret[j].price = ColSum(t, DOMAIN t, "impact")

C8_Witness ==
    /\ pc = "done"
    /\ Len(ret) = 1
    /\ Cardinality(DOMAIN loc.merged) = 2
    /\ \A k \in DOMAIN loc.merged : loc.merged[k].Price_Impact /= Zero
    /\ \E k \in DOMAIN loc.merged :
          loc.merged[k].Quantity_0[1] > 0 /\ loc.merged[k].Quantity_1[1] > 0
    /\ ret[1].price /= Zero

(***************************************************************************)
(* C9: the result does not depend on the order in which the periods are    *)
(* supplied: every permutation of the period list gives, on the same rows, *)
(* the same sequence of steps.  (Stated on the run of each ascending list: *)
(* every list is a permutation of one, so all its orders give that result.)*)
(***************************************************************************)
C9_OrderIndependent ==
    (pc = "done" /\ caller = "direct" /\ IsAscending(years)) =>
        \A p \in PermsOf(years) :
            calculate_bridge_mix_steps(df, p, group_col) = ret

C9_Witness ==
    /\ pc = "done"
    /\ caller = "direct"
    /\ years = <<2021, 2022, 2023>>
    /\ Len(ret) = 2
    /\ ret[1] /= ret[2]
    /\ ret[1].mix /= Zero
    /\ calculate_bridge_mix_steps(df, <<2023, 2021, 2022>>, group_col) = ret

(***************************************************************************)
(* C10: no state is carried between pairs: the step of an adjacent pair in *)
(* a call with more than 2 periods equals the single step of a call with   *)
(* only those two periods on the same rows.                                *)
(***************************************************************************)
C10_StepsSelfContained ==
    (pc = "done" /\ Len(years) > 2) =>
        \A j \in 1..(Len(ys) - 1) :
            LET alone == calculate_bridge_mix_steps(df, <<ys[j], ys[j + 1]>>, group_col)
            IN  /\ Len(alone) = 1
                /\ j <= Len(ret)
                /\ ret[j] = alone[1]

C10_Witness ==
    /\ pc = "done"
    /\ Len(years) = 3
    /\ Len(ret) = 2
    /\ ret[1].volume /= Zero
    /\ ret[2].volume /= Zero
    /\ ret[1].end_val /= Zero

(***************************************************************************)
(* C11: a period of the list without any row raises no error: its total    *)
(* revenue and total quantity are 0 in every step it takes part in, every  *)
(* group of the other period is zero-filled on its side, the effects stay  *)
(* finite and the steps are still produced.                                *)
(***************************************************************************)
C11_EmptyPeriod ==
    /\ HasLocals =>
          /\ DOMAIN YearRows(df, loc.y0) = {} =>
                /\ loc.total_r0 = Zero
                /\ loc.total_q0 = Zero
                /\ DOMAIN loc.merged = KeysOf(df, loc.y1, group_col)
                /\ \A k \in DOMAIN loc.merged :
                      loc.merged[k].Revenue_0 = Zero /\ loc.merged[k].Quantity_0 = Zero
                /\ IsFinite(loc.vol_effect) /\ IsFinite(loc.price_effect)
                /\ IsFinite(loc.mix_effect)
          /\ DOMAIN YearRows(df, loc.y1) = {} =>
                /\ loc.total_r1 = Zero
                /\ loc.total_q1 = Zero
                /\ DOMAIN loc.merged = KeysOf(df, loc.y0, group_col)
                /\ \A k \in DOMAIN loc.merged :
                      loc.merged[k].Revenue_1 = Zero /\ loc.merged[k].Quantity_1 = Zero
                /\ IsFinite(loc.vol_effect) /\ IsFinite(loc.price_effect)
                /\ IsFinite(loc.mix_effect)
    /\ (pc = "done" /\ Len(years) >= 2) => Len(ret) = Len(years) - 1

C11_Witness ==
    /\ pc = "done"
    /\ Len(years) = 3
    /\ Len(ret) = 2
    /\ DOMAIN YearRows(df, ys[1]) = {}
    /\ DOMAIN YearRows(df, ys[2]) /= {}
    /\ DOMAIN YearRows(df, ys[3]) = {}
    /\ ret[1].start_val = Zero
    /\ ret[1].end_val /= Zero
    /\ ret[2].end_val = Zero

(***************************************************************************)
(* C12: calculate_bridge_mix_steps has no side effect.  From the call to   *)
(* the return no step changes the caller's rows, the caller's period list  *)
(* (the sort goes to a new local list) or the loaded data, and the value   *)
(* returned is the function of the arguments alone, so two calls with the  *)
(* same arguments return equal results.                                    *)
(***************************************************************************)
C12_NoSideEffect ==
    [][ /\ pc \in {"called", "loop"} =>
              /\ years' = years
              /\ df' = df
              /\ group_col' = group_col
              /\ data' = data
        /\ (pc \in {"called", "loop"} /\ pc' = "done") =>
              ret' = calculate_bridge_mix_steps(df, years, group_col) ]_vars

C12_Witness ==
    /\ pc = "done"
    /\ caller = "direct"
    /\ Len(years) = 3
    /\ ~IsAscending(years)
    /\ ys /= years
    /\ Len(ret) = 2
    /\ ret[1].end_val /= Zero

(***************************************************************************)
(* C13: the decomposition is not symmetric in its two periods.  Exchanging *)
(* the data of the start and the end period negates the total change, but  *)
(* the volume effect is negated only where the total quantity or the       *)
(* average price is the same in both periods (start price is the weight),  *)
(* and on the worked example (GH 100/10 -> 110/10, JB new with 50/5, by   *)
(* product group) none of volume, price and mix becomes its negative.      *)
(***************************************************************************)
SwapYear(r, ya, yb) ==
    [r EXCEPT !.Year = IF @ = ya THEN yb ELSE IF @ = yb THEN ya ELSE @]

Exchanged(d, ya, yb) ==
    [r \in { SwapYear(x, ya, yb) : x \in DOMAIN d } |-> d[SwapYear(r, ya, yb)]]

Neg(x) == RSub(Zero, x)

C13_NotSymmetric ==
    HasLocals =>
        LET rev == Locals(Exchanged(df, loc.y0, loc.y1), loc.y0, loc.y1, group_col)
            avg_p1 == avg_p0_of(loc.total_r1, loc.total_q1)
        IN  /\ rev.total_variance = Neg(loc.total_variance)
            /\ rev.vol_effect = Neg(loc.vol_effect)
                  <=> (loc.total_q0 = loc.total_q1 \/ loc.avg_p0 = avg_p1)
            /\ (/\ loc.y0 /= loc.y1
                /\ df = WorkedExample(loc.y0, loc.y1)
                /\ group_col = "Product_Group") =>
                  /\ rev.vol_effect /= Neg(loc.vol_effect)
                  /\ rev.price_effect /= Neg(loc.price_effect)
                  /\ rev.mix_effect /= Neg(loc.mix_effect)

C13_Witness ==
    /\ pc = "done"
    /\ Len(ret) = 1
    /\ ys[1] /= ys[2]
    /\ df = WorkedExample(ys[1], ys[2])
    /\ group_col = "Product_Group"
    /\ ret[1].volume = Norm(50, 1) /\ ret[1].price = Norm(60, 1) /\ ret[1].mix = Norm(-50, 1)
    /\ LET rev == calculate_bridge_mix_steps(Exchanged(df, ys[1], ys[2]), years, group_col)[1]
       IN  /\ rev.volume = Norm(-160, 3) /\ rev.price = Norm(-10, 1) /\ rev.mix = Norm(10, 3)
           /\ RSub(rev.end_val, rev.start_val) = Norm(-60, 1)

(***************************************************************************)
(* C14: the rows of a period are reduced to one aggregate per distinct     *)
(* group key, each the sum of revenue and of quantity of the rows with     *)
(* that key, rows with negative amounts included, so that start_val and    *)
(* end_val of a step are the plain sums over all rows of the period.       *)
(* Stated as claimed; it fails on rows whose group key is blank.           *)
(***************************************************************************)
C14_TotalsArePlainSums ==
    HasLocals =>
        /\ DOMAIN loc.d0 = KeysOf(df, loc.y0, group_col)
        /\ DOMAIN loc.d1 = KeysOf(df, loc.y1, group_col)
        /\ \A k \in DOMAIN loc.d0 :
              /\ loc.d0[k].Revenue = KeySum(df, loc.y0, group_col, k, "Revenue")
              /\ loc.d0[k].Quantity = KeySum(df, loc.y0, group_col, k, "Quantity")
        /\ \A k \in DOMAIN loc.d1 :
              /\ loc.d1[k].Revenue = KeySum(df, loc.y1, group_col, k, "Revenue")
              /\ loc.d1[k].Quantity = KeySum(df, loc.y1, group_col, k, "Quantity")
        /\ loc.total_r0 = PlainSum(df, loc.y0, "Revenue")
        /\ loc.total_q0 = PlainSum(df, loc.y0, "Quantity")
        /\ loc.total_r1 = PlainSum(df, loc.y1, "Revenue")
        /\ loc.total_q1 = PlainSum(df, loc.y1, "Quantity")

(* a step of the detailed bridge whose end period has a row with a blank   *)
(* key and real revenue, which the end total does not hold                 *)
C14_Witness ==
    /\ HasLocals
    /\ caller = "detail"
    /\ group_col = "Sub_Product"
    /\ \E r \in DOMAIN YearRows(df, loc.y1) : r.Sub_Product = NoKey /\ r.Revenue > 0
    /\ \E r \in DOMAIN YearRows(df, loc.y0) : r.Revenue < 0
    /\ loc.total_r0 = PlainSum(df, loc.y0, "Revenue")
    /\ loc.total_r1 /= PlainSum(df, loc.y1, "Revenue")

(***************************************************************************)
(* C15: every section write_bridge_section wrote on the PQ_Bridge sheet    *)
(* has exactly one row per step, in step order, from row start_row + 2 on, *)
(* holding the label and, as values, start revenue, volume, price, mix and *)
(* end revenue; column 7 holds end_val - start_val, which equals volume +  *)
(* price + mix; the call returned start_row + number of steps + 3, where   *)
(* the next section starts.                                                *)
(***************************************************************************)
CellIs(r, c, v) == <<r, c>> \in DOMAIN ws /\ ws[<<r, c>>] = v

C15_BridgeSection ==
    \A s \in 1..Len(sections) :
        LET sec == sections[s]
            n == Len(sec.steps)
        IN  /\ sec.ret = sec.start_row + n + 3
            /\ sec.start_row = IF s = 1 THEN 1 ELSE sections[s - 1].ret
            /\ { r \in sec.start_row + 2 .. sec.ret - 1 : <<r, 1>> \in DOMAIN ws }
                  = sec.start_row + 2 .. sec.start_row + 1 + n
            /\ \A j \in 1..n :
                  LET r == sec.start_row + 1 + j
                      step == sec.steps[j]
                  IN  /\ CellIs(r, 1, step.label)
                      /\ CellIs(r, 2, step.start_val)
                      /\ CellIs(r, 3, step.volume)
                      /\ CellIs(r, 4, step.price)
                      /\ CellIs(r, 5, step.mix)
                      /\ CellIs(r, 6, step.end_val)
                      /\ CellIs(r, 7, RSub(step.end_val, step.start_val))
                      /\ CellIs(r, 7, RAdd(RAdd(step.volume, step.price), step.mix))

C15_Witness ==
    /\ stage = "reported"
    /\ Len(sections) = 4
    /\ \A s \in 1..4 : Len(sections[s].steps) = 2
    /\ sections[2].start_row = 6
    /\ sections[4].ret = 21
    /\ CellIs(9, 7, Norm(0 - 30, 1))
    /\ CellIs(9, 3, Norm(0 - 24, 1))
    /\ CellIs(9, 4, Norm(30, 1))
    /\ CellIs(9, 5, Norm(0 - 36, 1))

(***************************************************************************)
(* C16: a chart drawn from k >= 1 steps has 1 + 4k bars: the start total   *)
(* of the first step as an absolute bar, then for every step in order its  *)
(* Volume, Mix and Price effects as relative bars and its end total as an  *)
(* absolute bar; an empty list of steps gives the empty figure.            *)
(***************************************************************************)
C16_WaterfallSeries ==
    /\ create_waterfall_fig_multi(<<>>) = NoFigure
    /\ \A f \in 1..Len(fig) :
          LET steps == fig[f].steps
              c == fig[f].chart
              k == Len(steps)
          IN  /\ k >= 1
              /\ Len(c.x) = 1 + 4 * k /\ Len(c.y) = 1 + 4 * k /\ Len(c.measure) = 1 + 4 * k
              /\ c.x[1] = steps[1].start_year
              /\ c.y[1] = steps[1].start_val
              /\ c.measure[1] = "absolute"
              /\ \A j \in 1..k :
                    LET b == 4 * (j - 1) + 1
                        lbl == "<br>(" \o steps[j].label \o ")"
                    IN  /\ c.x[b + 1] = "Volume" \o lbl /\ c.y[b + 1] = steps[j].volume
                        /\ c.x[b + 2] = "Mix" \o lbl /\ c.y[b + 2] = steps[j].mix
                        /\ c.x[b + 3] = "Price" \o lbl /\ c.y[b + 3] = steps[j].price
                        /\ c.x[b + 4] = steps[j].end_year /\ c.y[b + 4] = steps[j].end_val
                        /\ \A e \in 1..3 : c.measure[b + e] = "relative"
                        /\ c.measure[b + 4] = "absolute"

C16_Witness ==
    /\ stage = "shown"
    /\ Len(fig) >= 1
    /\ Len(fig[1].steps) = 2
    /\ Len(fig[1].chart.y) = 9
    /\ fig[1].steps[2].mix /= fig[1].steps[2].price
    /\ fig[1].chart.y[7] = fig[1].steps[2].mix

(***************************************************************************)
(* C17: the Excel report holds the full data whatever the sidebar filters  *)
(* are: once generated, the PQ_Bridge sheet is the one generated from all  *)
(* loaded rows and all their years, so runs on the same workbook with      *)
(* different selected years, category or product group give the same       *)
(* report.                                                                 *)
(***************************************************************************)
FullReport == generate_excel_report(data, sorted(SetToSeq(YearsOf(data))))

C17_ReportIgnoresFilters ==
    stage \in {"reported", "shown"} =>
        /\ ws = FullReport.ws
        /\ sections = FullReport.sections

C17_Witness ==
    /\ stage = "shown"
    /\ Len(filters.selected_years) = 1
    /\ filters.sel_cat /= "All Categories"
    /\ filters.sel_prod /= "All Products"
    /\ Cardinality(YearsOf(data)) >= 2
    /\ filtered_df_of(data, filters.selected_years, filters.sel_cat, filters.sel_prod) /= data
    /\ fig = <<>>
    /\ Len(sections) >= 3
    /\ sections[1].steps[1].end_val /= Zero

(***************************************************************************)
(* C18: for a base quarter other than 4Q the required periods are          *)
(* (year, qtr) as current cumulative, (year-1, 4Q) as prior annual and     *)
(* (year-1, qtr) as prior same-quarter cumulative, and the LTM of Revenue, *)
(* EBIT and NI, in the preview and in LTM_Calc, is current cumulative +    *)
(* prior annual - prior same-quarter cumulative; for 4Q the only period is *)
(* (year, 4Q) and the LTM is the annual value.  The three terms are the    *)
(* sums of the collected rows of the role; for a ticker entered once they  *)
(* are the amounts fetched for the period, in units of 1e8 KRW, 0 where    *)
(* the fetch gave none.                                                    *)
(***************************************************************************)
Fetched(t, p, k) ==
    LET st == klog.fetched[(t - 1) * Len(klog.required_periods) + p]
    IN  IF st = None \/ st[1][k] = None THEN Zero ELSE Norm(st[1][k][1], Unit)

EnteredOnce(t) == Cardinality({ u \in 1..Len(kin.tickers) : kin.tickers[u] = kin.tickers[t] }) = 1

C18_LTM ==
    /\ kpc /= "sidebar" =>
          klog.required_periods =
              IF kin.sel_qtr = "4Q"
                THEN << <<kin.sel_year, QtrText["4Q"], "annual">> >>
                ELSE << <<kin.sel_year, QtrText[kin.sel_qtr], "current_cum">>,
                        <<kin.sel_year - 1, QtrText["4Q"], "prior_annual">>,
                        <<kin.sel_year - 1, QtrText[kin.sel_qtr], "prior_same_q">> >>
    /\ kpc = "done" =>
          \A t \in 1..Len(kin.tickers) : \A k \in {"Revenue", "EBIT", "NI"} :
              LET row == kout.LTM_Calc[t][k]
                  annual == role_sum(klog.raw_pl_rows, kin.tickers[t], k, "annual")
              IN  /\ row.LTM_Value = IF kin.sel_qtr = "4Q" THEN annual
                                     ELSE RSub(RAdd(row.A, row.B), row.C)
                  /\ kout.preview /= <<>> => kout.preview[t][k].LTM_Value = row.LTM_Value
                  /\ EnteredOnce(t) =>
                        row.LTM_Value = IF kin.sel_qtr = "4Q" THEN Fetched(t, 1, k)
                                        ELSE RSub(RAdd(Fetched(t, 1, k), Fetched(t, 2, k)),
                                                  Fetched(t, 3, k))

C18_Witness ==
    /\ kpc = "done"
    /\ kin.sel_qtr = "3Q"
    /\ kin.sel_year = 2025
    /\ kin.tickers = <<"000250", "039030">>
    /\ klog.required_periods[2] = <<2024, <<"4", "Q">>, "prior_annual">>
    /\ kout.preview /= <<>>
    /\ kout.preview[1].Revenue.LTM_Value = Norm(20, 1)
    /\ kout.preview[1].EBIT.LTM_Value = Norm(6, 1)
    /\ kout.LTM_Calc[1].NI.LTM_Value = Norm(0 - 5, 2)
    /\ kout.LTM_Calc[1].NI.Note = "A+B-C"

(***************************************************************************)
(* C19: fetch_pl_df calls its sources in the order finstate CFS, OFS, no   *)
(* fs_div, then finstate_all CFS, OFS, no fs_div; every call but the last  *)
(* one made gave no rows; it returns the rows of the first call that has   *)
(* some, under the label of that call, and calls nothing after it; it      *)
(* returns (None, 'N/A', 'NO_DATA') only after all six calls gave no rows. *)
(***************************************************************************)
SourceLabels ==
    <<"finstate|CFS", "finstate|OFS", "finstate|no_fs_div",
      "finstate_all|CFS", "finstate_all|OFS", "finstate_all|no_fs_div">>

NoRows(frame) == frame = None \/ frame[1].rows = 0

C19_SourceOrder ==
    /\ kpc \in {"fetch", "done"} =>
          /\ Len(klog) <= 6
          /\ \A n \in 1..Len(klog) : klog[n].label = SourceLabels[n]
          /\ \A n \in 1..(Len(klog) - 1) : NoRows(klog[n].df)
          /\ kpc = "fetch" => \A n \in 1..Len(klog) : NoRows(klog[n].df)
    /\ kpc = "done" =>
          LET last == klog[Len(klog)]
          IN  IF NoRows(last.df)
                THEN /\ Len(klog) = 6
                     /\ kout = <<None, "N/A", Some("NO_DATA")>>
                ELSE /\ kout = <<last.df, SourceLabels[Len(klog)], None>>
                     /\ last.df[1].fn \o "|" \o
                          (IF last.df[1].fs_div = None THEN "no_fs_div" ELSE last.df[1].fs_div[1])
                            = kout[2]

C19_Witness ==
    /\ kpc = "done"
    /\ Len(klog) = 4
    /\ klog[1].df /= None /\ klog[1].df[1].rows = 0
    /\ klog[2].df = None /\ klog[2].attempts = 3
    /\ klog[3].df = None /\ klog[3].attempts = 1
    /\ kout[2] = "finstate_all|CFS"
    /\ kout[1] = Some([fn |-> "finstate_all", fs_div |-> Some("CFS"), rows |-> 3])

(***************************************************************************)
(* C20: get_outstanding_shares returns the DART count with 'DART' when the *)
(* DART lookup gives a positive count, else the KRX count with 'KRX' when  *)
(* the listing has a positive count for the ticker, else (None, 'N/A'); a  *)
(* count it returns is positive, and a lookup that fails (request error,   *)
(* bad status, empty list, unreadable cell, listing not loaded) moves on   *)
(* to the next fallback and never ends in an exception.                    *)
(***************************************************************************)
DartFailed == kin.dart.kind \in {"error", "json", "empty"}

KrxCount == IF kin.krx.kind = "row" THEN to_int(kin.krx.Stocks) ELSE None

Positive(c) == c /= None /\ c[1] > 0

C20_SharesFallback ==
    /\ kpc \in {"dart", "done"} => (DartFailed => klog[1] = None)
    /\ kpc = "done" =>
          /\ kout /= Raised
          /\ kout[1] = None \/ kout[1][1] > 0
          /\ kout = IF Positive(klog[1]) THEN <<klog[1], "DART">>
                    ELSE IF Positive(KrxCount) THEN <<KrxCount, "KRX">>
                    ELSE <<None, "N/A">>

C20_Witness ==
    /\ kpc = "done"
    /\ kin.dart.kind = "row"
    /\ kin.dart.distb_stock_co = Text0
    /\ klog[1] = Some(0)
    /\ kin.krx.Stocks = Text750
    /\ kout = <<Some(750), "KRX">>

(***************************************************************************)
(* C21: EV = Market Cap + IBD - Cash + NCI - NOA and Net Debt = IBD - Cash *)
(* - NOA, where Cash, IBD, NCI and NOA of a company are the totals of its  *)
(* balance-sheet rows tagged exactly so: a row tagged IBD(Option) or       *)
(* NOA(Option) adds to none of them, in the preview (for a ticker entered  *)
(* once) and in the cells of the GPCM sheet.                               *)
(***************************************************************************)
RECURSIVE AmountOver(_, _)
AmountOver(rows, idx) ==
    IF idx = {} THEN Zero
    ELSE LET j == CHOOSE k \in idx : TRUE
         IN  RAdd(rows[j].Amount_100M, AmountOver(rows, idx \ {j}))

TagTotal(ticker, tag) ==
    AmountOver(klog.raw_bs_rows,
               { j \in 1..Len(klog.raw_bs_rows) :
                   /\ klog.raw_bs_rows[j].Ticker = ticker
                   /\ klog.raw_bs_rows[j].EV_Component = tag })

MktTotal(ticker) ==
    LET idx == { j \in 1..Len(klog.all_mkt) : klog.all_mkt[j].Ticker = ticker }
        RECURSIVE total(_)
        total(S) == IF S = {} THEN Zero
                    ELSE LET j == CHOOSE k \in S : TRUE
                         IN  RAdd(klog.all_mkt[j].Market_Cap_100M, total(S \ {j}))
    IN  total(idx)

EVFromRows(ticker) ==
    RSub(RAdd(RSub(RAdd(MktTotal(ticker), TagTotal(ticker, "IBD")), TagTotal(ticker, "Cash")),
              TagTotal(ticker, "NCI")),
         TagTotal(ticker, "NOA"))

C21_EVComponents ==
    (kpc = "done" /\ DOMAIN kout = {"preview", "GPCM"}) =>
        /\ \A t \in 1..Len(kout.GPCM) :
              LET row == kout.GPCM[t]
              IN  /\ row.Cash = TagTotal(row.Ticker, "Cash")
                  /\ row.IBD = TagTotal(row.Ticker, "IBD")
                  /\ row.NCI = TagTotal(row.Ticker, "NCI")
                  /\ row.NOA = TagTotal(row.Ticker, "NOA")
                  /\ row.Net_Debt = RSub(RSub(row.IBD, row.Cash), row.NOA)
                  /\ row.EV = EVFromRows(row.Ticker)
        /\ \A j \in 1..Len(kout.preview) :
              LET row == kout.preview[j]
              IN  Cardinality({ u \in 1..Len(kin.tickers) : kin.tickers[u] = row.Ticker }) = 1
                    => row.EV = EVFromRows(row.Ticker)

C21_Witness ==
    /\ kpc = "done"
    /\ DOMAIN kout = {"preview", "GPCM"}
    /\ kin.tickers = <<"000250", "039030">>
    /\ Len(kout.preview) = 2
    /\ TagTotal("000250", "IBD(Option)") = Norm(15, 2)
    /\ TagTotal("000250", "NOA(Option)") = Rat(15)
    /\ kout.GPCM[1].IBD = Rat(10)
    /\ kout.GPCM[1].Cash = Rat(5)
    /\ kout.GPCM[1].NCI = Rat(1)
    /\ kout.GPCM[1].NOA = Zero
    /\ kout.GPCM[1].Net_Debt = Rat(5)
    /\ kout.GPCM[1].Mkt_Cap = Norm(5, 2)
    /\ kout.GPCM[1].EV = Norm(17, 2)
    /\ kout.preview[1].EV = Norm(17, 2)

(***************************************************************************)
(* C22: get_korean_marginal_tax_rate returns 9.9% for an income up to 200  *)
(* (millions of won), 20.9% above 200 up to 20,000, 23.1% above 20,000 up  *)
(* to 300,000 and 26.4% above 300,000, and 23.1% for a missing income and  *)
(* for an income of exactly 0; of two positive incomes the larger never    *)
(* gets the lower rate.                                                    *)
(***************************************************************************)
Above(x, n) == x[1] > n * x[2]

PositiveIncome(x) == x /= None /\ IsFinite(x) /\ x[1] > 0

C22_TaxBrackets ==
    (kpc = "done" /\ kout /= <<>>) =>
        LET x == kin
            rate == kout[1]
        IN  /\ (x = None \/ x = NaN \/ x = Zero) => rate = Norm(231, 1000)
            /\ (x /= None /\ IsFinite(x) /\ x /= Zero) =>
                  /\ ~Above(x, 200) => rate = Norm(99, 1000)
                  /\ (Above(x, 200) /\ ~Above(x, 20000)) => rate = Norm(209, 1000)
                  /\ (Above(x, 20000) /\ ~Above(x, 300000)) => rate = Norm(231, 1000)
                  /\ Above(x, 300000) => rate = Norm(264, 1000)
            /\ (PositiveIncome(x) /\ klog /= <<>> /\ PositiveIncome(klog[1]) /\ RLeq(klog[1], x))
                  => RLeq(klog[2], rate)

C22_Witness ==
    /\ kpc = "done"
    /\ kin = Norm(401, 2)
    /\ kout = <<Norm(209, 1000)>>
    /\ klog = <<Rat(200), Norm(99, 1000)>>

(***************************************************************************)
(* C23: a ticker that fails is skipped and the loop goes on.  In           *)
(* get_gpcm_data every ticker of the list is processed once, in order; a   *)
(* pass that raises adds no entry to gpcm_data, so a ticker is in          *)
(* gpcm_data exactly when one of its passes did not raise.  In the Korean  *)
(* tool a ticker without DART code is reported and leaves no row, and      *)
(* every ticker of the list is either reported so or collected.            *)
(***************************************************************************)
InPeers == kpc \in {"peers", "wacc", "returned"}

InKorean == kpc \in {"sidebar", "ticker", "period", "collected", "done"}

TickersOf(rows) == { rows[j].Ticker : j \in 1..Len(rows) }

PeerBetas(beta_type) ==
    { <<t, IF beta_type = "5Y" THEN klog.gpcm_data[t].Unlevered_Beta_5Y
                               ELSE klog.gpcm_data[t].Unlevered_Beta_2Y>> :
        t \in DOMAIN klog.gpcm_data }

PositiveBetas(beta_type) ==
    { tb \in PeerBetas(beta_type) : tb[2] /= None /\ tb[2][1][1] > 0 /\ tb[2][1][2] > 0 }

RECURSIVE BetaTotal(_)
BetaTotal(S) ==
    IF S = {} THEN Zero
    ELSE LET tb == CHOOSE x \in S : TRUE
         IN  RAdd(tb[2][1], BetaTotal(S \ {tb}))

AllRaised(outs) == \A j \in 1..Len(outs) : outs[j].raised

RetrySafe ==
    LET outs == klog.outcomes
        n == Len(outs)
    IN  /\ klog.calls = n
        /\ n <= kin.max_retry + 1
        /\ AllRaised(SubSeq(outs, 1, n - 1))
        /\ kpc = "try" => AllRaised(outs)
        /\ kpc = "done" =>
              IF AllRaised(outs)
                THEN /\ n = kin.max_retry + 1
                     /\ kout = <<None, outs[n].err>>
                ELSE kout = <<outs[n].df, None>>

C24_RetryBound == []RetrySafe /\ <>(kpc = "done")

C24_Witness ==
    /\ kpc = "done"
    /\ kin.max_retry = 2
    /\ kin.fn = "finstate_all"
    /\ klog.calls = 3
    /\ klog.outcomes[1].err = Some("timeout")
    /\ klog.outcomes[2].err = Some("timeout")
    /\ klog.outcomes[3].err = Some("status 020")
    /\ kout = <<None, Some("status 020")>>

(***************************************************************************)
(* C29: in one scan of an income statement at most one row is recorded per *)
(* key among Revenue, EBIT and NI; the row recorded for a key is the first *)
(* row with that key whose amount is usable (rows with a missing or zero   *)
(* amount do not take the key, later rows with the key are ignored), and   *)
(* no row is read after the one that completes the three keys.             *)
(***************************************************************************)
Usable(j, key) ==
    /\ match_pl_core_only(kin.df_is[j].account_nm) = key
    /\ pick_pl_value(kin.df_is[j], kin.qtr) /= None

FirstUsable(key, upto) ==
    LET hits == { j \in 1..upto : Usable(j, key) }
    IN  IF hits = {} THEN 0 ELSE CHOOSE j \in hits : \A h \in hits : j <= h

Recorded(rows, key) == { j \in 1..Len(rows) : rows[j].calc_key = key }

C29_OneRowPerKey ==
    kpc \in {"scan", "done"} /\ DOMAIN kin = {"qtr", "df_is"} =>
        /\ \A key \in {"Revenue", "EBIT", "NI"} :
              LET first == FirstUsable(key, klog.k)
                  rec == Recorded(klog.rows, key)
              IN  /\ Cardinality(rec) <= 1
                  /\ first = 0 => rec = {}
                  /\ first /= 0 =>
                        /\ Cardinality(rec) = 1
                        /\ \A j \in rec :
                              klog.rows[j].Amount_100M
                                 = Norm(pick_pl_value(kin.df_is[first], kin.qtr)[1], Unit)
        /\ \A j \in 1..Len(klog.rows) : klog.rows[j].calc_key \in {"Revenue", "EBIT", "NI"}
        /\ kpc = "done" =>
              /\ kout = klog.rows
              /\ klog.k = IF \A key \in {"Revenue", "EBIT", "NI"} :
                              FirstUsable(key, Len(kin.df_is)) /= 0
                            THEN CHOOSE m \in 1..Len(kin.df_is) :
                                    /\ \A key \in {"Revenue", "EBIT", "NI"} :
                                          FirstUsable(key, Len(kin.df_is)) <= m
                                    /\ \E key \in {"Revenue", "EBIT", "NI"} :
                                          FirstUsable(key, Len(kin.df_is)) = m
                            ELSE Len(kin.df_is)

C29_Witness ==
    /\ kpc = "done"
    /\ kin.df_is = FullStatement
    /\ kin.qtr = "2Q"
    /\ klog.k = 6
    /\ Len(kout) = 3
    /\ kout[1].calc_key = "NI" /\ kout[1].Amount_100M = Norm(3, 2)
    /\ kout[2].calc_key = "Revenue" /\ kout[2].Amount_100M = Rat(10)
    /\ kout[3].calc_key = "EBIT" /\ kout[3].Amount_100M = Norm(0 - 5, 2)

(***************************************************************************)
(* C25: in a result of two or more steps (three or more periods) the       *)
(* steps chain: the end_val and end_year of each step are the start_val    *)
(* and start_year of the next one, so the volume, price and mix effects of *)
(* all steps add up to the end_val of the last step minus the start_val of *)
(* the first one.                                                          *)
(***************************************************************************)
RECURSIVE EffectsTotal(_)
EffectsTotal(steps) ==
    IF steps = <<>> THEN Zero
    ELSE RAdd(RAdd(Head(steps).volume, RAdd(Head(steps).price, Head(steps).mix)),
              EffectsTotal(Tail(steps)))

Chained(steps) ==
    \A j \in 1..(Len(steps) - 1) :
        /\ steps[j].end_val = steps[j + 1].start_val
        /\ steps[j].end_year = steps[j + 1].start_year

C25_StepsChain ==
    pc = "done" /\ Len(years) >= 3 =>
        /\ Len(ret) >= 2
        /\ Chained(ret)
        /\ EffectsTotal(ret) = RSub(ret[Len(ret)].end_val, ret[1].start_val)

C25_Witness ==
    /\ pc = "done"
    /\ years = <<2023, 2021, 2022>>
    /\ Len(ret) = 2
    /\ ret[1].start_val = Rat(100)
    /\ ret[1].end_val = Rat(160)
    /\ ret[2].start_val = Rat(160)
    /\ ret[2].end_val = Zero
    /\ ret[1].end_year = "2022" /\ ret[2].start_year = "2022"
    /\ EffectsTotal(ret) = Rat(0 - 100)

(***************************************************************************)
(* C26: duplicates stay in the period list: a list of two or more periods  *)
(* gives one step less than its length, and where a period occurs twice    *)
(* there is a step from that period to itself, whose start_val equals its  *)
(* end_val and whose volume, price and mix effects are 0.                  *)
(***************************************************************************)
HasDuplicate(s) == Cardinality(ToSet(s)) < Len(s)

SelfStep(st) ==
    /\ st.start_year = st.end_year
    /\ st.start_val = st.end_val
    /\ st.volume = Zero
    /\ st.price = Zero
    /\ st.mix = Zero

C26_DuplicatePeriods ==
    pc = "done" /\ Len(years) >= 2 =>
        /\ Len(ret) = Len(years) - 1
        /\ \A j \in 1..Len(ret) : ret[j].start_year = ret[j].end_year => SelfStep(ret[j])
        /\ HasDuplicate(years) => \E j \in 1..Len(ret) : SelfStep(ret[j])
        /\ \A y \in ToSet(years) :
              Cardinality({ j \in 1..Len(ret) : ret[j].start_year = ToString(y)
                                                  /\ ret[j].end_year = ToString(y) })
                 = Cardinality({ j \in 1..Len(years) : years[j] = y }) - 1

C26_Witness ==
    /\ pc = "done"
    /\ years = <<2022, 2021, 2022>>
    /\ df = WorkedExample(2021, 2022)
    /\ group_col = "Product_Group"
    /\ Len(ret) = 2
    /\ ret[1].start_val = Rat(100) /\ ret[1].end_val = Rat(160)
    /\ ret[2].start_year = "2022" /\ ret[2].end_year = "2022"
    /\ ret[2].start_val = Rat(160) /\ ret[2].end_val = Rat(160)
    /\ ret[2].volume = Zero /\ ret[2].price = Zero /\ ret[2].mix = Zero

(***************************************************************************)
(* C27: the rows whose year is not in the period list have no influence on *)
(* the result: the steps returned are the steps of the same call on the    *)
(* rows of the listed years alone, so two data frames that agree on these  *)
(* rows give the same steps.                                               *)
(***************************************************************************)
C27_UnlistedRowsIgnored ==
    pc = "done" =>
        ret = calculate_bridge_mix_steps(IsIn(df, years), years, group_col)

C27_Witness ==
    /\ pc = "done"
    /\ caller = "direct"
    /\ years = <<2021, 2023>>
    /\ \E r \in DOMAIN df : r.Year = 2022 /\ r.Revenue /= 0
    /\ \E r \in DOMAIN df : r.Year = 2021
    /\ Len(ret) = 1
    /\ ret[1].start_val /= Zero
    /\ ret[1].end_val = Zero
====
